---- MODULE Spec2Model ----
(***************************************************************************)
(* Model of the CDO algebraic-system assembly layer of Code_Saturne        *)
(* (cs_equation_common.c): matrix assembler construction, cell-wise        *)
(* assembly through per-thread buffers, enforcement of internal DoFs,      *)
(* preparation of the linear system in parallel and balance structures.    *)
(***************************************************************************)
EXTENDS Integers, Sequences, FiniteSets, TLC

(***************************************************************************)
(* Bounds of the model                                                     *)
(***************************************************************************)
MaxElts == 4      \* largest number of mesh entities (vertices or faces)
MaxWidth == 2     \* largest number of entities in one cell (n_max_vbyc)
MaxThreads == 2   \* largest number of OpenMP threads
MaxParElts == 3   \* largest number of entities of a mesh assembled by threads
MaxDofs == 2      \* largest number of DoFs of a cell system with enforcement
MaxRanks == 2     \* largest number of MPI ranks
MaxGlobal == 3    \* largest number of entities of a partitioned mesh
MaxAccum == 2     \* largest number of contributions added to the balances

VARIABLES
  flags,      \* scheme flags given to cs_equation_allocate_structures
  connect,    \* cs_cdo_connect_t: [n_elts, n_max_vbyc, n_max_fbyc]
  n_dofbyx,   \* number of DoFs by entity of the scheme
  x2x,        \* cs_adjacency_t: [idx, ids] (CSR, diagonal excluded)
  rs,         \* cs_range_set_t: [g_id, l_range]
  cells,      \* the cell-wise systems (cs_cell_sys_t) the mesh gives
  ma,         \* cs_matrix_assembler_t: [built, computed, couples, calls]
  matrix,     \* values of the global matrix, by couple of global ids
  n_threads,  \* cs_glob_n_threads
  cs_assembly_buffers, \* one cs_equation_assembly_buf_t by thread
  add_call,   \* last batch handed to cs_matrix_assembler_values_add_g, and
              \* the number of batches
  oob,        \* writes made outside the allocated arrays of mab
  done,       \* indices of the cells already assembled, in call order
  status      \* "run", "fatal" (bft_error, assertion), "crash", "corrupt",
              \* or "end" once the structures are freed

asmVars ==
  <<flags, connect, n_dofbyx, x2x, rs, cells, ma, matrix, n_threads,
    cs_assembly_buffers, add_call, oob, done, status>>

VARIABLES
  omp_choice, \* cs_param_omp_assembly_strategy_t of the equation
  mav_stride, \* stride given to cs_equation_get_mav
  mav,        \* add function of the cs_matrix_assembler_values_t
  wk,         \* by thread: [pc, c, k, tmp, n_done, n_app, n_flush]
  lock        \* thread inside the critical section, or -1

parVars == <<omp_choice, mav_stride, mav, wk, lock>>

VARIABLES
  enf_csys,    \* cs_cell_sys_t given to cs_equation_enforced_internal_dofs
  enf_cb,     \* cs_cell_builder_t: [values]
  enf_eqp,    \* cs_equation_param_t: [enforced_dof_values]
  enf_pre,    \* csys and cb when the function is entered
  enf_pc      \* "idle", "built", "returned" or "again" (called twice)

enfVars == <<enf_csys, enf_cb, enf_eqp, enf_pre, enf_pc>>

VARIABLES
  n_ranks,    \* cs_glob_n_ranks
  rsets,      \* by rank: cs_range_set_t [n_elts, g_id, l_range] and its ifs
  ps,         \* by rank: cs_equation_prepare_system [pos, x, b, nnz, calls]
  ps_pre,     \* by rank: x and b when cs_equation_prepare_system is entered
  bal,        \* by rank: [pc, b, n_acc, last], b the cs_equation_balance_t
  bal_pre     \* by rank: b->balance when cs_equation_balance_sync is entered

mpiVars == <<n_ranks, rsets, ps, ps_pre, bal, bal_pre>>

VARIABLES
  heap        \* blocks allocated by the setup and not freed

memVars == <<heap>>

otherVars == <<enfVars, mpiVars, memVars>>

vars == <<asmVars, parVars, otherVars>>

(***************************************************************************)
(* Generic helpers                                                         *)
(***************************************************************************)
Range(n) == 0 .. (n - 1)

Max(a, b) == IF a >= b THEN a ELSE b

Min(S) == CHOOSE m \in S : \A y \in S : m <= y

RECURSIVE SumOver(_, _)
\* Sum of f[k] for k in the finite set S
SumOver(S, f) ==
  IF S = {} THEN 0
  ELSE LET k == CHOOSE y \in S : TRUE IN f[k] + SumOver(S \ {k}, f)

RECURSIVE SortedSeq(_)
\* The elements of a finite set of integers in increasing order
SortedSeq(S) ==
  IF S = {} THEN << >>
  ELSE LET m == Min(S) IN <<m>> \o SortedSeq(S \ {m})

(***************************************************************************)
(* Inputs owned by the mesh / partition layer                              *)
(***************************************************************************)
\* cs_adjacency_t built from the neighbours of each entity: idx[n+1] and
\* ids[idx[n]], 0-based as in the C arrays
Adjacency(n, nbrs) ==
  LET RECURSIVE Idx(_)
      Idx(i) == IF i = 0 THEN 0 ELSE Idx(i - 1) + Cardinality(nbrs[i - 1])
      RECURSIVE Ids(_)
      Ids(i) == IF i = 0 THEN << >> ELSE Ids(i - 1) \o SortedSeq(nbrs[i - 1])
      flat == Ids(n)
  IN [idx |-> [i \in 0 .. n |-> Idx(i)],
      ids |-> [k \in Range(Len(flat)) |-> flat[k + 1]]]

\* Entities within a distance < w of entity i (the entities sharing a cell
\* with i when cells span w consecutive entities), i excluded
BandNbrs(n, w) ==
  [i \in Range(n) |-> {j \in Range(n) : j # i /\ j - i < w /\ i - j < w}]

\* One-directional variant: only the following entities are listed
ForwardNbrs(n, w) ==
  [i \in Range(n) |-> {j \in Range(n) : j > i /\ j - i < w}]

AdjKinds == {"band", "forward"}

AdjacencyOfKind(kind, n, w) ==
  IF kind = "band" THEN Adjacency(n, BandNbrs(n, w))
  ELSE Adjacency(n, ForwardNbrs(n, w))

\* Neighbours of entity i as stored in the CSR structure
X2xNbrs(adj, i) == {adj.ids[j] : j \in adj.idx[i] .. (adj.idx[i + 1] - 1)}

GidKinds == {"identity", "reversed"}

\* cs_range_set_t of a sequential run on n_loc DoFs: one global id for each
\* local DoF and the local range [0, n_loc)
RangeSet(kind, n_loc) ==
  [g_id |-> [k \in Range(n_loc) |->
               IF kind = "reversed" THEN n_loc - 1 - k ELSE k],
   l_range |-> IF kind = "owned_short" THEN <<0, n_loc - 1>>
               ELSE IF kind = "owned_long" THEN <<0, n_loc + 1>>
               ELSE <<0, n_loc>>]

\* Range sets whose local range is not the n_loc DoFs of the rank: the last
\* DoF belongs to another rank, or the range holds one DoF more
MismatchKinds == {"owned_short", "owned_long"}

(***************************************************************************)
(* Inputs owned by the discretization layer: cell-wise systems             *)
(***************************************************************************)
MatKinds == {"ones", "ramp"}

Shapes == {"span", "twin"}

\* Entities of cell c: w consecutive entities, or w times the same one
CellEntity(shape, c, k) == IF shape = "span" THEN c + k ELSE c

\* cs_cell_sys_t of cell c for b DoFs by entity: dof_ids is interlaced by
\* entity, mat is the dense local matrix (n_dofs x n_dofs), rhs the local
\* right-hand side
CellSys(shape, matkind, c, w, b) ==
  LET n == b * w IN
  [c_id |-> c,
   n_dofs |-> n,
   n_blocks |-> w,
   dof_ids |-> [k \in Range(n) |->
                  b * CellEntity(shape, c, k \div b) + (k % b)],
   rhs |-> [i \in Range(n) |-> c + i + 1],
   mat |-> [i \in Range(n) |-> [j \in Range(n) |->
              IF matkind = "ones" THEN 1
              ELSE 10 * (c + 1) + i * n + j]]]

(***************************************************************************)
(* _build_matrix_assembler                                                 *)
(***************************************************************************)
\* Size of the temporary arrays grows and gcols
AssemblerBufSize(n_elts, b, adj) ==
  LET RECURSIVE MaxSize(_)
      MaxSize(id) ==
        IF id = 0 THEN 0
        ELSE Max(MaxSize(id - 1), adj.idx[id] - adj.idx[id - 1])
  IN b * b * (MaxSize(n_elts) + 1)

\* Variant of EntityCouples which forgets the diagonal entry
EntityCouplesNoDiag(row_id, b, adj, rset) ==
  LET start == adj.idx[row_id]
      end == adj.idx[row_id + 1]
      grow_id == rset.g_id[row_id]
  IN [i \in 1 .. (end - start) |->
        <<grow_id, rset.g_id[adj.ids[start + i - 1]]>>]

\* Variant of EntityCouples: the simplified version is taken whatever the
\* number of DoFs by entity
EntityCouplesSimplified(row_id, b, adj, rset) ==
  LET start == adj.idx[row_id]
      end == adj.idx[row_id + 1]
      grow_id == rset.g_id[row_id]
  IN [i \in 1 .. (end - start + 1) |->
        IF i = 1 THEN <<grow_id, grow_id>>
        ELSE <<grow_id, rset.g_id[adj.ids[start + i - 2]]>>]

\* The couples (grows[k], gcols[k]) submitted for entity row_id in one call
\* to cs_matrix_assembler_add_g_ids, in the order they are written
EntityCouples(row_id, b, adj, rset) ==
  LET start == adj.idx[row_id]
      end == adj.idx[row_id + 1]
  IN IF b = 1
     THEN \* Simplified version
       LET grow_id == rset.g_id[row_id]
       IN [i \in 1 .. (end - start + 1) |->
             IF i = 1 THEN <<grow_id, grow_id>>
             ELSE <<grow_id, rset.g_id[adj.ids[start + i - 2]]>>]
     ELSE
       LET n_entries == (end - start + 1) * b * b
           grow_ids == [d \in Range(b) |-> rset.g_id[row_id * b + d]]
           \* block 0 is the diagonal block, block k > 0 the k-th neighbour
           gcol_ids(blk) ==
             IF blk = 0 THEN grow_ids
             ELSE [d \in Range(b) |->
                     rset.g_id[adj.ids[start + blk - 1] * b + d]]
       IN [s \in 1 .. n_entries |->
             LET shift == s - 1
                 blk == shift \div (b * b)
                 dof_i == (shift % (b * b)) \div b
                 dof_j == shift % b
             IN <<grow_ids[dof_i], gcol_ids(blk)[dof_j]>>]

SeqToSet(q) == {q[k] : k \in DOMAIN q}

\* cs_matrix_assembler_create: an assembler with no couple
cs_matrix_assembler_create(l_range) ==
  [built |-> TRUE, computed |-> FALSE, l_range |-> l_range, buf_size |-> 0,
   calls |-> << >>, couples |-> {}, events |-> <<"create">>, error |-> FALSE]

\* cs_matrix_assembler_add_g_ids: the couples of a batch are added; it is
\* an error once the assembler is computed
cs_matrix_assembler_add_g_ids(asb, batch) ==
  IF asb.computed
  THEN [asb EXCEPT !.error = TRUE, !.events = Append(@, "add_g_ids")]
  ELSE [asb EXCEPT !.calls = Append(@, batch),
                   !.couples = @ \cup SeqToSet(batch),
                   !.events = Append(@, "add_g_ids")]

\* cs_matrix_assembler_compute: the pattern is frozen
cs_matrix_assembler_compute(asb) ==
  [asb EXCEPT !.computed = TRUE, !.events = Append(@, "compute")]

\* The loop on entities of _build_matrix_assembler from row_id on: one
\* batch of couples is added by entity
RECURSIVE AddEntities(_, _, _, _, _, _)
AddEntities(asb, row_id, n_elts, b, adj, rset) ==
  IF row_id >= n_elts THEN asb
  ELSE AddEntities(
         cs_matrix_assembler_add_g_ids(asb, EntityCouples(row_id, b, adj, rset)),
         row_id + 1, n_elts, b, adj, rset)

\* Variant of build_matrix_assembler: the structure is computed before the
\* loop on entities
BuildComputedFirst(n_elts, b, adj, rset) ==
  AddEntities(
    cs_matrix_assembler_compute(
      [cs_matrix_assembler_create(rset.l_range) EXCEPT
         !.buf_size = AssemblerBufSize(n_elts, b, adj)]),
    0, n_elts, b, adj, rset)

\* The assembler returned by _build_matrix_assembler: every entity's batch
\* has been added, then cs_matrix_assembler_compute has been called
build_matrix_assembler(n_elts, b, adj, rset) ==
  cs_matrix_assembler_compute(
    AddEntities([cs_matrix_assembler_create(rset.l_range) EXCEPT
                   !.buf_size = AssemblerBufSize(n_elts, b, adj)],
                0, n_elts, b, adj, rset))

NoAssembler ==
  [built |-> FALSE, computed |-> FALSE, l_range |-> <<0, 0>>, buf_size |-> 0,
   calls |-> << >>, couples |-> {}, events |-> << >>, error |-> FALSE]

(***************************************************************************)
(* cs_equation_allocate_structures: sizes of the assembly buffers          *)
(***************************************************************************)
\* cs_flag_test: every bit of the mask is set in the flag
cs_flag_test(flag, mask) == mask \subseteq flag

NoFlags == [vb |-> {}, vcb |-> {}, fb |-> {}, hho |-> {}]

\* The updates of loc_assembler_size and assembler_dof_size which are
\* reached for the given flags: (factor of the squared number of entities
\* by cell, factor of the number of entities by cell, kind of entity)
SizeUpdates(f) ==
  LET Vtx == f.vb # {} \/ f.vcb # {}
      Face == f.fb # {} \/ f.hho # {}
      VtxScal == Vtx /\ ("SCALAR" \in f.vb \/ "SCALAR" \in f.vcb)
      VtxVect == Vtx /\ ("VECTOR" \in f.vb \/ "VECTOR" \in f.vcb)
      FaceSp0 == Face /\ (cs_flag_test(f.fb, {"POLY0", "SCALAR"})
                          \/ cs_flag_test(f.hho, {"POLY0", "SCALAR"}))
      FaceSp1 == Face /\ (cs_flag_test(f.fb, {"POLY0", "VECTOR"})
                          \/ cs_flag_test(f.hho, {"POLY1", "SCALAR"})
                          \/ cs_flag_test(f.hho, {"POLY0", "VECTOR"}))
      FaceSp2 == Face /\ cs_flag_test(f.hho, {"POLY2", "SCALAR"})
      FaceVh == Face /\ (cs_flag_test(f.hho, {"VECTOR", "POLY1"})
                         \/ cs_flag_test(f.hho, {"VECTOR", "POLY2"}))
  IN   (IF VtxScal /\ "SCALAR" \in f.vb
        THEN {[ent |-> "v", sys |-> 1, dof |-> 1]} ELSE {})
  \cup (IF VtxScal /\ "SCALAR" \in f.vcb
        THEN {[ent |-> "v", sys |-> 1, dof |-> 1]} ELSE {})
  \cup (IF VtxVect /\ "VECTOR" \in f.vb
        THEN {[ent |-> "v", sys |-> 9, dof |-> 3]} ELSE {})
  \cup (IF VtxVect /\ "VECTOR" \in f.vcb
        THEN {[ent |-> "v", sys |-> 9, dof |-> 3]} ELSE {})
  \cup (IF FaceSp0 /\ "SCALAR" \in f.fb
        THEN {[ent |-> "f", sys |-> 1, dof |-> 1]} ELSE {})
  \cup (IF FaceSp1
        THEN {[ent |-> "f", sys |-> 9, dof |-> 3]} ELSE {})
  \cup (IF FaceSp2
        THEN {[ent |-> "f", sys |-> 36, dof |-> 6]} ELSE {})
  \cup (IF FaceVh /\ "POLY1" \in f.hho
        THEN {[ent |-> "f", sys |-> 81, dof |-> 9]} ELSE {})
  \cup (IF FaceVh /\ "POLY1" \notin f.hho /\ "POLY2" \in f.hho
        THEN {[ent |-> "f", sys |-> 324, dof |-> 18]} ELSE {})

MaxOf(S) == IF S = {} THEN 0 ELSE CHOOSE m \in S : \A y \in S : y <= m

NMaxByCell(con, ent) == IF ent = "v" THEN con.n_max_vbyc ELSE con.n_max_fbyc

\* loc_assembler_size at the end of cs_equation_allocate_structures
LocAssemblerSize(con, f) ==
  MaxOf({u.sys * NMaxByCell(con, u.ent) * NMaxByCell(con, u.ent) :
           u \in SizeUpdates(f)})

\* assembler_dof_size at the end of cs_equation_allocate_structures
AssemblerDofSize(con, f) ==
  MaxOf({u.dof * NMaxByCell(con, u.ent) : u \in SizeUpdates(f)})

\* A cs_equation_assembly_buf_t as allocated for one thread
NewAssemblyBuf(loc_assembler_size, assembler_dof_size) ==
  [n_x_dofs |-> 1,
   dof_size |-> assembler_dof_size,
   dof_gids |-> [i \in Range(assembler_dof_size) |-> 0],
   buffer_size |-> loc_assembler_size,
   row_gids |-> [k \in Range(loc_assembler_size) |-> 0],
   col_gids |-> [k \in Range(loc_assembler_size) |-> 0],
   values |-> [k \in Range(loc_assembler_size) |-> 0]]

NoAssemblyBuf == NewAssemblyBuf(0, 0)

\* Variant of cs_equation_get_assembly_buffers: every thread is given the
\* buffer of thread 0
GetAssemblyBuffersShared(t_id) ==
  IF t_id < 0 \/ t_id >= n_threads THEN -1 ELSE 0

\* cs_equation_get_assembly_buffers: position in cs_assembly_buffers of the
\* buffer of thread t_id, -1 for NULL
cs_equation_get_assembly_buffers(t_id) ==
  IF t_id < 0 \/ t_id >= n_threads THEN -1 ELSE t_id

\* The buffer a position stands for
BufferAt(pos) ==
  IF pos \in DOMAIN cs_assembly_buffers THEN cs_assembly_buffers[pos]
  ELSE NoAssemblyBuf

\* Buffer of the calling thread of a sequential assembly
mab == BufferAt(cs_equation_get_assembly_buffers(0))

(***************************************************************************)
(* Cell-wise assembly                                                      *)
(***************************************************************************)
\* Variant of AssembleEntries reading the local matrix by column
AssembleEntriesTransposed(csys, rset) ==
  LET n == csys.n_dofs
      dof_gids == [i \in Range(n) |-> rset.g_id[csys.dof_ids[i]]]
  IN [k \in Range(n * n) |->
        [row |-> dof_gids[k \div n],
         col |-> dof_gids[k % n],
         val |-> csys.mat[k % n][k \div n]]]

\* Variant of AssembleEntries writing the row id as the column id
AssembleEntriesRowAsCol(csys, rset) ==
  LET n == csys.n_dofs
      dof_gids == [i \in Range(n) |-> rset.g_id[csys.dof_ids[i]]]
  IN [k \in Range(n * n) |->
        [row |-> dof_gids[k \div n],
         col |-> dof_gids[k \div n],
         val |-> csys.mat[k \div n][k % n]]]

\* Variant of AssembleEntries filling the buffer column by column
AssembleEntriesColMajor(csys, rset) ==
  LET n == csys.n_dofs
      dof_gids == [i \in Range(n) |-> rset.g_id[csys.dof_ids[i]]]
  IN [k \in Range(n * n) |->
        [row |-> dof_gids[k % n],
         col |-> dof_gids[k \div n],
         val |-> csys.mat[k % n][k \div n]]]

\* cs_equation_assemble_matrix: the triples written in row_gids, col_gids
\* and values, by position bufsize
AssembleEntries(csys, rset) ==
  LET n == csys.n_dofs
      dof_gids == [i \in Range(n) |-> rset.g_id[csys.dof_ids[i]]]
  IN [k \in Range(n * n) |->
        [row |-> dof_gids[k \div n],
         col |-> dof_gids[k % n],
         val |-> csys.mat[k \div n][k % n]]]

\* cs_sdm_get_block: block (bi, bj) of a matrix made of b x b blocks
cs_sdm_get_block(m, b, bi, bj) ==
  [ii \in Range(b) |-> [jj \in Range(b) |-> m[b * bi + ii][b * bj + jj]]]

\* Variant of AssembleBlockEntries: the component is added to the global id
\* of the first DoF of the block
AssembleBlockEntriesGidOffset(csys, rset, n_x_dofs) ==
  LET nb == csys.n_blocks
      b == n_x_dofs
  IN [k \in Range(nb * nb * b * b) |->
        LET bi == k \div (nb * b * b)
            bj == (k \div (b * b)) % nb
            ii == (k % (b * b)) \div b
            jj == k % b
            mIJ == cs_sdm_get_block(csys.mat, b, bi, bj)
        IN [row |-> rset.g_id[csys.dof_ids[b * bi]] + ii,
            col |-> rset.g_id[csys.dof_ids[b * bj]] + jj,
            val |-> mIJ[ii][jj]]]

\* cs_equation_assemble_block_matrix: the triples written in the buffer
AssembleBlockEntries(csys, rset, n_x_dofs) ==
  LET nb == csys.n_blocks
      b == n_x_dofs
  IN [k \in Range(nb * nb * b * b) |->
        LET bi == k \div (nb * b * b)
            bj == (k \div (b * b)) % nb
            ii == (k % (b * b)) \div b
            jj == k % b
            mIJ == cs_sdm_get_block(csys.mat, b, bi, bj)
        IN [row |-> rset.g_id[csys.dof_ids[b * bi] + ii],
            col |-> rset.g_id[csys.dof_ids[b * bj] + jj],
            val |-> mIJ[ii][jj]]]

\* cs_matrix_assembler_values_add_g: every value is added to the entry of
\* its couple of global ids
cs_matrix_assembler_values_add_g(mat, entries) ==
  [r \in DOMAIN mat |-> [c \in DOMAIN mat[r] |->
     mat[r][c]
     + SumOver({k \in DOMAIN entries :
                  entries[k].row = r /\ entries[k].col = c},
               [k \in DOMAIN entries |-> entries[k].val])]]

\* The couples of a batch are all in the pattern of the assembler
InPattern(asb, entries) ==
  \A k \in DOMAIN entries : <<entries[k].row, entries[k].col>> \in asb.couples

\* What the build can do once a write has left the allocated arrays: the
\* assertion on buffer_size stops a debug build after the writes, the write
\* itself may be trapped, or the run goes on with a corrupted heap
Outcomes(overflow) ==
  IF overflow THEN {"assert", "segv", "silent"} ELSE {"ok"}

NoCall == [c_id |-> -1, entries |-> << >>, n_calls |-> 0]

\* The arrays of the buffer after the writes which fall inside them
BufferAfter(buf, entries, n_gids, gids) ==
  [buf EXCEPT
     !.dof_gids = [i \in DOMAIN buf.dof_gids |->
                     IF i < n_gids THEN gids[i] ELSE buf.dof_gids[i]],
     !.row_gids = [k \in DOMAIN buf.row_gids |->
                     IF k \in DOMAIN entries THEN entries[k].row
                     ELSE buf.row_gids[k]],
     !.col_gids = [k \in DOMAIN buf.col_gids |->
                     IF k \in DOMAIN entries THEN entries[k].col
                     ELSE buf.col_gids[k]],
     !.values = [k \in DOMAIN buf.values |->
                   IF k \in DOMAIN entries THEN entries[k].val
                   ELSE buf.values[k]]]

\* The writes which fall outside the arrays of the buffer
OutOfBounds(buf, entries, n_gids) ==
  {<<"dof_gids", i>> : i \in buf.dof_size .. (n_gids - 1)}
  \cup {<<"triples", k>> : k \in buf.buffer_size .. (Cardinality(DOMAIN entries) - 1)}

\* The first write made outside the arrays: dof_gids is written before the
\* triples
FirstEscaped(escaped) ==
  LET gids == {e \in escaped : e[1] = "dof_gids"}
      first == IF gids # {} THEN gids ELSE escaped
  IN CHOOSE e \in first : \A y \in first : e[2] <= y[2]

\* Common part of the two assembly functions for cell c: the writes in the
\* buffer, the assertion, then the batched call if bufsize > 0
Assemble(c, entries, n_gids, gids) ==
  LET bufsize == Cardinality(DOMAIN entries)
      escaped == OutOfBounds(mab, entries, n_gids)
  IN \E out \in Outcomes(escaped # {}) :
       /\ cs_assembly_buffers' =
            [cs_assembly_buffers EXCEPT
               ![cs_equation_get_assembly_buffers(0)] =
                  BufferAfter(mab, entries, n_gids, gids)]
       /\ oob' = oob \cup (IF out = "segv" THEN {FirstEscaped(escaped)}
                           ELSE escaped)
       /\ IF out \in {"assert", "segv"}
          THEN /\ status' = IF out = "assert" THEN "fatal" ELSE "crash"
               /\ UNCHANGED <<matrix, add_call, done>>
          ELSE IF bufsize = 0
          THEN /\ done' = Append(done, c)
               /\ UNCHANGED <<matrix, add_call, status>>
          ELSE /\ add_call' = [c_id |-> c, entries |-> entries,
                               n_calls |-> add_call.n_calls + 1]
               /\ IF InPattern(ma, entries)
                  THEN /\ matrix' = cs_matrix_assembler_values_add_g(matrix, entries)
                       /\ done' = Append(done, c)
                       /\ status' = IF out = "silent" THEN "corrupt" ELSE status
                  ELSE /\ status' = "fatal"
                       /\ UNCHANGED <<matrix, done>>

Pending == {c \in DOMAIN cells : \A k \in DOMAIN done : done[k] # c}

\* Variant of cs_equation_assemble_matrix which empties the local matrix
\* of the cell system once its values are in the buffer
AssembleMatrixConsumesCell(c) ==
  /\ status = "run" /\ ma.built /\ n_dofbyx = 1
  /\ c \in Pending
  /\ LET csys == cells[c]
     IN Assemble(c, AssembleEntries(csys, rs), csys.n_dofs,
                 [i \in Range(csys.n_dofs) |-> rs.g_id[csys.dof_ids[i]]])
  /\ cells' = [cells EXCEPT
                 ![c].mat = [i \in DOMAIN @ |-> [j \in DOMAIN @[i] |-> 0]]]
  /\ UNCHANGED <<flags, connect, n_dofbyx, x2x, rs, ma, n_threads>>
  /\ UNCHANGED <<parVars, otherVars>>

cs_equation_assemble_matrix(c) ==
  /\ status = "run" /\ ma.built /\ n_dofbyx = 1
  /\ c \in Pending
  /\ LET csys == cells[c]
     IN Assemble(c, AssembleEntries(csys, rs), csys.n_dofs,
                 [i \in Range(csys.n_dofs) |-> rs.g_id[csys.dof_ids[i]]])
  /\ UNCHANGED <<flags, connect, n_dofbyx, x2x, rs, cells, ma, n_threads>>
  /\ UNCHANGED <<parVars, otherVars>>

cs_equation_assemble_block_matrix(c) ==
  /\ status = "run" /\ ma.built /\ n_dofbyx > 1
  /\ c \in Pending
  /\ Assemble(c, AssembleBlockEntries(cells[c], rs, mab.n_x_dofs), 0, << >>)
  /\ UNCHANGED <<flags, connect, n_dofbyx, x2x, rs, cells, ma, n_threads>>
  /\ UNCHANGED <<parVars, otherVars>>

ZeroMatrix(n) == [r \in Range(n) |-> [c \in Range(n) |-> 0]]

\* cs_equation_allocate_structures for the scheme of the run: the matrix
\* assembler of the scheme and one assembly buffer by thread; the caller
\* then sets n_x_dofs for a system defined by blocks
\* A block is <<name, thread>>, or <<name>> when it does not belong to a
\* thread
\* The blocks cs_equation_allocate_structures allocates for nthreads
\* threads: the arrays of assemblers and of structures with the assembler
\* and the structure of the scheme, the work buffer, the array of assembly
\* buffers and, by thread, the buffer record and its four arrays
SetupBlocks(nthreads) ==
  {<<"cs_equation_common_ma">>, <<"cs_equation_common_ms">>, <<"ma">>,
   <<"ms">>, <<"cs_equation_common_work_buffer">>, <<"cs_assembly_buffers">>}
  \cup ({"assb", "dof_gids", "row_gids", "col_gids", "values"}
          \X Range(nthreads))

cs_equation_allocate_structures ==
  /\ status = "run" /\ ~ma.built
  /\ ma' = build_matrix_assembler(connect.n_elts, n_dofbyx, x2x, rs)
  /\ heap' = heap \cup SetupBlocks(n_threads)
  /\ cs_assembly_buffers' =
       [t_id \in Range(n_threads) |->
          [NewAssemblyBuf(LocAssemblerSize(connect, flags),
                          AssemblerDofSize(connect, flags))
             EXCEPT !.n_x_dofs = n_dofbyx]]
  /\ UNCHANGED <<flags, connect, n_dofbyx, x2x, rs, cells, matrix, n_threads,
                 add_call, oob, done, status>>
  /\ UNCHANGED <<parVars, enfVars, mpiVars>>

(***************************************************************************)
(* Sequential assembly of the cells of a mesh                              *)
(***************************************************************************)
\* Schemes of the runs: flags of the equation, kind of entity, DoFs by entity
VbSchemes ==
  {[flags |-> [NoFlags EXCEPT !.vb = {"SCALAR", "POLY0"}], ent |-> "v", b |-> 1],
   [flags |-> [NoFlags EXCEPT !.vb = {"VECTOR", "POLY0"}], ent |-> "v", b |-> 3]}

MeshCells(shape, matkind, n, w, b) ==
  IF w = 0 THEN << >>
  ELSE [c \in 1 .. (n - w + 1) |-> CellSys(shape, matkind, c - 1, w, b)]

InitMesh(schemes, n, w, vbyc, adjkind, gidkind, shape, matkind) ==
  \E sch \in schemes :
    /\ flags = sch.flags
    /\ n_dofbyx = sch.b
    /\ connect = [n_elts |-> n, n_max_vbyc |-> vbyc, n_max_fbyc |-> w]
    /\ x2x = AdjacencyOfKind(adjkind, n, w)
    /\ rs = RangeSet(gidkind, n * sch.b)
    /\ cells = MeshCells(shape, matkind, n, w, sch.b)
    /\ matrix = ZeroMatrix(n * sch.b)
    /\ ma = NoAssembler
    /\ cs_assembly_buffers = << >>
    /\ add_call = NoCall
    /\ oob = {}
    /\ heap = {}
    /\ done = << >>
    /\ status = "run"

\* No mesh is given and nothing is allocated: the run is about functions
\* which do not use the structures shared by the equations
AsmIdle ==
  /\ flags = NoFlags
  /\ n_dofbyx = 1
  /\ connect = [n_elts |-> 0, n_max_vbyc |-> 0, n_max_fbyc |-> 0]
  /\ x2x = [idx |-> <<0>>, ids |-> << >>]
  /\ rs = [g_id |-> << >>, l_range |-> <<0, 0>>]
  /\ cells = << >>
  /\ matrix = << >>
  /\ ma = NoAssembler
  /\ n_threads = 1
  /\ cs_assembly_buffers = << >>
  /\ add_call = NoCall
  /\ oob = {}
  /\ heap = {}
  /\ done = << >>
  /\ status = "run"

\* No cell system is given to the enforcement of internal DoFs
EnfIdle ==
  /\ enf_csys = [n_dofs |-> 0]
  /\ enf_cb = [values |-> << >>]
  /\ enf_eqp = [enforced_dof_values |-> << >>]
  /\ enf_pre = [csys |-> enf_csys, cb |-> enf_cb]
  /\ enf_pc = "idle"

\* One rank, no partitioned mesh, no call of the functions using MPI
MpiIdle ==
  /\ n_ranks = 1
  /\ rsets = << >>
  /\ ps = << >>
  /\ ps_pre = << >>
  /\ bal = << >>
  /\ bal_pre = << >>

OtherIdle == EnfIdle /\ MpiIdle

\* No thread is at work: the assembly is made by the calling thread
ParIdle ==
  /\ omp_choice = "ATOMIC"
  /\ mav_stride = 1
  /\ mav = "none"
  /\ wk = << >>
  /\ lock = -1

InitAsm ==
  /\ n_threads = 1
  /\ ParIdle
  /\ OtherIdle
  /\ \E n \in 1 .. MaxElts, w \in 1 .. MaxWidth, adjkind \in AdjKinds,
        gidkind \in GidKinds, shape \in Shapes, matkind \in MatKinds :
       /\ w <= n
       /\ InitMesh(VbSchemes, n, w, w, adjkind, gidkind, shape, matkind)

NextAsm ==
  \/ cs_equation_allocate_structures
  \/ \E c \in DOMAIN cells : cs_equation_assemble_matrix(c)
  \/ \E c \in DOMAIN cells : cs_equation_assemble_block_matrix(c)

SpecAsm == InitAsm /\ [][NextAsm]_vars

(***************************************************************************)
(* Properties of the sequential assembly                                   *)
(***************************************************************************)
\* Sum of the local values of a cell system whose couple of global ids is
\* (r, c)
Contribution(csys, rset, r, c) ==
  LET P == {p \in Range(csys.n_dofs) \X Range(csys.n_dofs) :
              /\ rset.g_id[csys.dof_ids[p[1]]] = r
              /\ rset.g_id[csys.dof_ids[p[2]]] = c}
  IN SumOver(P, [p \in P |-> csys.mat[p[1]][p[2]]])

\* Sum of the contributions of the cells assembled so far
Expected(r, c) ==
  LET D == {done[k] : k \in DOMAIN done}
  IN SumOver(D, [d \in D |-> Contribution(cells[d], rs, r, c)])

\* C1: whatever the cells assembled so far and the order of the calls, every
\* entry (r, c) of the global matrix is the sum over these cells and their
\* local pairs (i, j) mapped to (r, c) of the local value M[i][j]
C1_Additivity ==
  \A r \in DOMAIN matrix : \A c \in DOMAIN matrix[r] :
    matrix[r][c] = Expected(r, c)

\* C1 witness: two cells assembled by cs_equation_assemble_matrix have both
\* contributed a nonzero value to the same entry
C1_Witness ==
  /\ n_dofbyx = 1
  /\ Len(done) >= 2
  /\ \E r \in DOMAIN matrix : \E c \in DOMAIN matrix :
       /\ Contribution(cells[done[1]], rs, r, c) # 0
       /\ Contribution(cells[done[2]], rs, r, c) # 0
       /\ matrix[r][c] # Contribution(cells[done[2]], rs, r, c)

\* Entities holding the DoFs of a cell system
CellEntities(csys, b) ==
  {csys.dof_ids[b * k] \div b : k \in Range(csys.n_blocks)}

\* The entities of the cell are pairwise identical or adjacent in x2x
Coupled(csys) ==
  \A e1 \in CellEntities(csys, n_dofbyx) :
    \A e2 \in CellEntities(csys, n_dofbyx) :
      e1 = e2 \/ e2 \in X2xNbrs(x2x, e1)

\* C3: for a cell whose entities are pairwise identical or adjacent in the
\* adjacency given to _build_matrix_assembler, every couple handed to the
\* matrix by the assembly functions was submitted to the matrix assembler
C3_PatternSuperset ==
  (add_call.c_id # -1 /\ Coupled(cells[add_call.c_id]))
    => InPattern(ma, add_call.entries)

\* C3 witness: a block system on two distinct adjacent entities was handed
\* to the matrix
C3_Witness ==
  /\ add_call.c_id # -1
  /\ n_dofbyx > 1
  /\ Coupled(cells[add_call.c_id])
  /\ Cardinality(CellEntities(cells[add_call.c_id], n_dofbyx)) = 2
  /\ ma.computed

\* The chain of 4 entities with scalar unknowns, tridiagonal adjacency and
\* the three edge cells (0,1), (1,2), (2,3) with 2x2 local blocks of ones
ChainScenario ==
  /\ n_dofbyx = 1
  /\ connect.n_elts = 4
  /\ x2x = Adjacency(4, BandNbrs(4, 2))
  /\ cells = MeshCells("span", "ones", 4, 2, 1)

\* C9: on the chain scenario, once the three edges are assembled (in any
\* order) the diagonal is [1,2,2,1], the entries (i,i+1) and (i+1,i) are 1
\* and every other entry is 0
C9_ChainLaplacian ==
  (ChainScenario /\ Len(done) = 3) =>
    \A i \in Range(4) : \A j \in Range(4) :
      matrix[rs.g_id[i]][rs.g_id[j]] =
        IF i = j THEN (IF i \in {0, 3} THEN 1 ELSE 2)
        ELSE IF i - j = 1 \/ j - i = 1 THEN 1 ELSE 0

\* C9 witness: the three edges assembled in the order (2,3), (0,1), (1,2)
C9_Witness ==
  /\ ChainScenario
  /\ done = <<3, 1, 2>>
  /\ matrix[rs.g_id[1]][rs.g_id[1]] = 2

(***************************************************************************)
(* Assembly of face-based scalar systems with the buffers sized by         *)
(* cs_equation_allocate_structures                                         *)
(***************************************************************************)
\* Flags activating the scalar face-based matrix structure (1 DoF by face):
\* CDO-Fb alone, HHO-P0 alone, HHO-P0 together with CDO-Vb
FaceScalarSchemes ==
  {[flags |-> [NoFlags EXCEPT !.fb = {"SCALAR", "POLY0"}], ent |-> "f", b |-> 1],
   [flags |-> [NoFlags EXCEPT !.hho = {"SCALAR", "POLY0"}], ent |-> "f", b |-> 1],
   [flags |-> [NoFlags EXCEPT !.hho = {"SCALAR", "POLY0"},
                              !.vb = {"SCALAR", "POLY0"}],
    ent |-> "f", b |-> 1]}

InitOvf ==
  /\ n_threads = 1
  /\ ParIdle
  /\ OtherIdle
  /\ \E n \in 1 .. MaxElts, w \in 1 .. MaxWidth, vbyc \in 1 .. MaxWidth,
        gidkind \in GidKinds, matkind \in MatKinds :
       /\ w <= n
       /\ InitMesh(FaceScalarSchemes, n, w, vbyc, "band", gidkind, "span", matkind)

NextOvf ==
  \/ cs_equation_allocate_structures
  \/ \E c \in DOMAIN cells : cs_equation_assemble_matrix(c)

SpecOvf == InitOvf /\ [][NextOvf]_vars

\* The cell system of an assembly call needs more triples than the buffer
\* was sized for
Oversized(csys) == csys.n_dofs * csys.n_dofs > mab.buffer_size

OmpChoices == {"ATOMIC", "CRITICAL", "NONE"}

\* Variant of GetMav which never tests the number of threads
GetMavNoThreadTest(nthreads, choice, stride) ==
  IF stride = 1 THEN "add_1_single" ELSE "error"

\* Variant of GetMav: the atomic add is the default with several threads
GetMavAtomicDefault(nthreads, choice, stride) ==
  IF stride = 1
  THEN IF nthreads < 2 THEN "add_1_single"
       ELSE IF choice = "CRITICAL" THEN "add_1_critic"
       ELSE "add_1_atomic"
  ELSE "error"

\* cs_equation_get_mav: the add function given to
\* cs_matrix_assembler_values_initx, "error" after bft_error
GetMav(nthreads, choice, stride) ==
  IF stride = 1
  THEN IF nthreads < 2 THEN "add_1_single"
       ELSE IF choice = "ATOMIC" THEN "add_1_atomic"
       ELSE IF choice = "CRITICAL" THEN "add_1_critic"
       ELSE "error"
  ELSE "error"

IdleWorker ==
  [pc |-> "idle", c |-> 0, k |-> 0, tmp |-> 0, n_done |-> 0,
   n_app |-> 0, n_flush |-> 0]

\* The threads enter the parallel loop on cells
StartThreads ==
  /\ UNCHANGED otherVars
  /\ status = "run" /\ mav \notin {"none", "error"} /\ wk = << >>
  /\ wk' = [t_id \in Range(n_threads) |-> IdleWorker]
  /\ UNCHANGED <<omp_choice, mav_stride, mav, lock>>
  /\ UNCHANGED asmVars

cs_equation_get_mav ==
  /\ UNCHANGED otherVars
  /\ status = "run" /\ ma.built /\ mav = "none"
  /\ mav' = GetMav(n_threads, omp_choice, mav_stride)
  /\ status' = IF mav' = "error" THEN "fatal" ELSE status
  /\ UNCHANGED <<omp_choice, mav_stride, wk, lock>>
  /\ UNCHANGED <<flags, connect, n_dofbyx, x2x, rs, cells, ma, matrix, n_threads,
                 cs_assembly_buffers, add_call, oob, done>>

Taken == {wk[t_id].c : t_id \in {u \in DOMAIN wk : wk[u].pc # "idle"}}

\* Thread t_id takes a cell of the loop which no thread has taken
TakeCell(t_id, c) ==
  /\ UNCHANGED otherVars
  /\ status = "run"
  /\ wk[t_id].pc = "idle"
  /\ c \in Pending \ Taken
  /\ wk' = [wk EXCEPT ![t_id] = [@ EXCEPT !.pc = "fill", !.c = c, !.n_app = 0]]
  /\ UNCHANGED <<omp_choice, mav_stride, mav, lock>>
  /\ UNCHANGED asmVars

\* cs_equation_assemble_matrix by thread t_id, up to the batched call: the
\* triples of its cell are written in the buffer of the thread
FillBuffer(t_id) ==
  /\ UNCHANGED otherVars
  /\ status = "run"
  /\ wk[t_id].pc = "fill"
  /\ LET csys == cells[wk[t_id].c]
         pos == cs_equation_get_assembly_buffers(t_id)
     IN cs_assembly_buffers' =
          [cs_assembly_buffers EXCEPT ![pos] =
             BufferAfter(@, AssembleEntries(csys, rs), csys.n_dofs,
                         [i \in Range(csys.n_dofs) |->
                            rs.g_id[csys.dof_ids[i]]])]
  /\ wk' = [wk EXCEPT ![t_id] =
               [@ EXCEPT !.pc = "flush", !.k = 0,
                         !.n_app = Cardinality(DOMAIN AssembleEntries(
                                                 cells[wk[t_id].c], rs))]]
  /\ UNCHANGED <<omp_choice, mav_stride, mav, lock>>
  /\ UNCHANGED <<flags, connect, n_dofbyx, x2x, rs, cells, ma, matrix, n_threads,
                 add_call, oob, done, status>>

\* Number of triples of the batch of thread t_id
BufSize(t_id) == cells[wk[t_id].c].n_dofs * cells[wk[t_id].c].n_dofs

\* Triple k of the buffer thread t_id hands to the matrix
BufEntry(t_id) ==
  LET buf == BufferAt(cs_equation_get_assembly_buffers(t_id))
      k == wk[t_id].k
  IN [row |-> buf.row_gids[k], col |-> buf.col_gids[k], val |-> buf.values[k]]

\* cs_matrix_assembler_values_add_g is entered: add_1_critic waits for the
\* critical section, the other add functions do not wait
BeginAdd(t_id) ==
  /\ UNCHANGED otherVars
  /\ status = "run"
  /\ wk[t_id].pc = "flush"
  /\ IF mav = "add_1_critic"
     THEN lock = -1 /\ lock' = t_id
     ELSE UNCHANGED lock
  /\ wk' = [wk EXCEPT ![t_id] = [@ EXCEPT !.pc = "add", !.n_flush = @ + 1]]
  /\ UNCHANGED <<omp_choice, mav_stride, mav>>
  /\ UNCHANGED asmVars

AfterEntry(w, n) ==
  [w EXCEPT !.k = @ + 1, !.pc = IF w.k + 1 = n THEN "end" ELSE "add"]

\* add_1_atomic: the value is added to its entry in one atomic update
AddAtomic(t_id) ==
  /\ UNCHANGED otherVars
  /\ status = "run"
  /\ wk[t_id].pc = "add" /\ mav = "add_1_atomic"
  /\ LET e == BufEntry(t_id)
     IN matrix' = [matrix EXCEPT ![e.row][e.col] = @ + e.val]
  /\ wk' = [wk EXCEPT ![t_id] = AfterEntry(@, BufSize(t_id))]
  /\ UNCHANGED <<omp_choice, mav_stride, mav, lock>>
  /\ UNCHANGED <<flags, connect, n_dofbyx, x2x, rs, cells, ma, n_threads,
                 cs_assembly_buffers, add_call, oob, done, status>>

\* add_1_single and add_1_critic: plain update, the entry is read ...
AddRead(t_id) ==
  /\ UNCHANGED otherVars
  /\ status = "run"
  /\ wk[t_id].pc = "add" /\ mav \in {"add_1_single", "add_1_critic"}
  /\ LET e == BufEntry(t_id)
     IN wk' = [wk EXCEPT ![t_id] =
                 [@ EXCEPT !.pc = "write", !.tmp = matrix[e.row][e.col]]]
  /\ UNCHANGED <<omp_choice, mav_stride, mav, lock>>
  /\ UNCHANGED asmVars

\* ... then written
AddWrite(t_id) ==
  /\ UNCHANGED otherVars
  /\ status = "run"
  /\ wk[t_id].pc = "write"
  /\ LET e == BufEntry(t_id)
     IN matrix' = [matrix EXCEPT ![e.row][e.col] = wk[t_id].tmp + e.val]
  /\ wk' = [wk EXCEPT ![t_id] = AfterEntry(@, BufSize(t_id))]
  /\ UNCHANGED <<omp_choice, mav_stride, mav, lock>>
  /\ UNCHANGED <<flags, connect, n_dofbyx, x2x, rs, cells, ma, n_threads,
                 cs_assembly_buffers, add_call, oob, done, status>>

\* Variant of EndAdd which leaves the critical section held
EndAddKeepsLock(t_id) ==
  /\ UNCHANGED otherVars
  /\ status = "run"
  /\ wk[t_id].pc = "end"
  /\ done' = Append(done, wk[t_id].c)
  /\ wk' = [wk EXCEPT ![t_id] = [@ EXCEPT !.pc = "idle", !.n_done = @ + 1]]
  /\ UNCHANGED <<omp_choice, mav_stride, mav, lock>>
  /\ UNCHANGED <<flags, connect, n_dofbyx, x2x, rs, cells, ma, matrix, n_threads,
                 cs_assembly_buffers, add_call, oob, status>>

\* The batched call returns, and cs_equation_assemble_matrix with it
EndAdd(t_id) ==
  /\ UNCHANGED otherVars
  /\ status = "run"
  /\ wk[t_id].pc = "end"
  /\ lock' = IF lock = t_id THEN -1 ELSE lock
  /\ done' = Append(done, wk[t_id].c)
  /\ wk' = [wk EXCEPT ![t_id] = [@ EXCEPT !.pc = "idle", !.n_done = @ + 1]]
  /\ UNCHANGED <<omp_choice, mav_stride, mav>>
  /\ UNCHANGED <<flags, connect, n_dofbyx, x2x, rs, cells, ma, matrix, n_threads,
                 cs_assembly_buffers, add_call, oob, status>>

ScalarVbSchemes == {sch \in VbSchemes : sch.b = 1}

\* Strides given to cs_equation_get_mav: scalar-valued or by blocks of 3
Strides == {1, 3}

InitPar ==
  /\ n_threads \in 1 .. MaxThreads
  /\ omp_choice \in OmpChoices
  /\ mav_stride \in Strides
  /\ mav = "none"
  /\ wk = << >>
  /\ lock = -1
  /\ OtherIdle
  /\ \E n \in 1 .. MaxParElts, w \in 1 .. MaxWidth, matkind \in MatKinds :
       /\ w <= n
       /\ InitMesh(ScalarVbSchemes, n, w, w, "band", "identity", "span", matkind)

NextPar ==
  \/ cs_equation_allocate_structures
  \/ cs_equation_get_mav
  \/ StartThreads
  \/ \E t_id \in DOMAIN wk : \E c \in DOMAIN cells : TakeCell(t_id, c)
  \/ \E t_id \in DOMAIN wk : FillBuffer(t_id)
  \/ \E t_id \in DOMAIN wk : BeginAdd(t_id)
  \/ \E t_id \in DOMAIN wk : AddAtomic(t_id)
  \/ \E t_id \in DOMAIN wk : AddRead(t_id)
  \/ \E t_id \in DOMAIN wk : AddWrite(t_id)
  \/ \E t_id \in DOMAIN wk : EndAdd(t_id)

SpecPar == InitPar /\ [][NextPar]_vars

\* The steps of thread t_id in the loop on cells
Worker(t_id) ==
  /\ t_id \in DOMAIN wk
  /\ \/ \E c \in DOMAIN cells : TakeCell(t_id, c)
     \/ FillBuffer(t_id)
     \/ BeginAdd(t_id)
     \/ AddAtomic(t_id)
     \/ AddRead(t_id)
     \/ AddWrite(t_id)
     \/ EndAdd(t_id)

\* The calls made before the loop
Setup ==
  \/ cs_equation_allocate_structures
  \/ cs_equation_get_mav
  \/ StartThreads

\* Every thread which can make a step eventually makes one, and so does the
\* caller of the loop
SpecParFair ==
  /\ InitPar
  /\ [][NextPar]_vars
  /\ WF_vars(Setup)
  /\ \A t_id \in Range(MaxThreads) : WF_vars(Worker(t_id))

\* The matrix given by cs_equation_assemble_matrix called on the first n
\* cells of the mesh one after the other
RECURSIVE SequentialMatrix(_)
SequentialMatrix(n) ==
  IF n = 0 THEN ZeroMatrix(connect.n_elts * n_dofbyx)
  ELSE cs_matrix_assembler_values_add_g(SequentialMatrix(n - 1),
                                        AssembleEntries(cells[n], rs))

AllAssembled ==
  /\ Len(done) = Len(cells)
  /\ wk # << >>
  /\ \A t_id \in DOMAIN wk : wk[t_id].pc = "idle"

\* C2: with two threads or more and the atomic or the critical strategy,
\* whatever the interleaving of the threads and the cells each one takes,
\* the matrix obtained once all the cells are assembled is the matrix of the
\* sequential assembly of these cells
C2_ThreadsAsSequential ==
  (n_threads >= 2 /\ omp_choice \in {"ATOMIC", "CRITICAL"} /\ AllAssembled)
    => matrix = SequentialMatrix(Len(cells))

\* C2 witness: two threads have each assembled a cell with the atomic
\* strategy, and the two cells contribute to a same entry
C2_Witness ==
  /\ AllAssembled
  /\ mav = "add_1_atomic"
  /\ \E t1 \in DOMAIN wk : \E t2 \in DOMAIN wk :
       t1 # t2 /\ wk[t1].n_done >= 1 /\ wk[t2].n_done >= 1
  /\ \E r \in DOMAIN matrix : \E c \in DOMAIN matrix :
       /\ Contribution(cells[1], rs, r, c) # 0
       /\ Contribution(cells[2], rs, r, c) # 0

(***************************************************************************)
(* Enforcement of internal DoFs                                            *)
(***************************************************************************)
MatValues == {-1, 2}            \* values of the entries of csys->mat
RhsValues == {0, 3}             \* values of the entries of csys->rhs
EnforcedDofValues == <<5, 7>>   \* eqp->enforced_dof_values
ScratchValue == 9               \* what cb->values holds when entered

\* cb->values after the memset when every DoF takes an enforced value
\* (variant: x_vals is not zero for the DoFs which are not enforced)
XValsAllForced(sys, q) ==
  [i \in Range(sys.n_dofs) |->
     q.enforced_dof_values[Max(sys.intern_forced_ids[i], 0)]]

\* x_vals after "Build x_vals": 0 from the memset, the enforced value for
\* the DoFs with intern_forced_ids[i] > -1
XVals(sys, q) ==
  [i \in Range(sys.n_dofs) |->
     IF sys.intern_forced_ids[i] > -1
     THEN q.enforced_dof_values[sys.intern_forced_ids[i]]
     ELSE 0]

\* cs_sdm_matvec: ax = mat.x for a dense row-major matrix
cs_sdm_matvec(n, val, x) ==
  [i \in Range(n) |->
     SumOver(Range(n), [j \in Range(n) |-> val[i * n + j] * x[j]])]

\* Variant of EnforceDof: the diagonal is set before the column is reset
EnforceDofDiagFirst(val, n, i) ==
  LET diag == [val EXCEPT ![i * (1 + n)] = 1]
      row == [k \in DOMAIN val |-> IF k \in {n * i + j : j \in Range(n)}
                                   THEN 0 ELSE diag[k]]
  IN [k \in DOMAIN val |-> IF k \in {i + n * j : j \in Range(n)}
                           THEN 0 ELSE row[k]]

\* Variant of EnforceDof: only row i is reset
EnforceDofRowOnly(val, n, i) ==
  LET row == [k \in DOMAIN val |-> IF k \in {n * i + j : j \in Range(n)}
                                   THEN 0 ELSE val[k]]
  IN [row EXCEPT ![i * (1 + n)] = 1]

\* Row i and column i of mat->val are reset, then the diagonal is set to 1
EnforceDof(val, n, i) ==
  LET row == [k \in DOMAIN val |-> IF k \in {n * i + j : j \in Range(n)}
                                   THEN 0 ELSE val[k]]
      col == [k \in DOMAIN row |-> IF k \in {i + n * j : j \in Range(n)}
                                   THEN 0 ELSE row[k]]
  IN [col EXCEPT ![i * (1 + n)] = 1]

\* Variant of EnforceLoop: the product with x_vals is taken from the matrix
\* as the loop has left it, not from the matrix before the loop
RECURSIVE EnforceLoopLateProduct(_, _, _, _)
EnforceLoopLateProduct(i, sys, x_vals, ax) ==
  IF i >= sys.n_dofs THEN sys
  ELSE IF sys.intern_forced_ids[i] > -1
  THEN EnforceLoopLateProduct(i + 1,
                   [sys EXCEPT !.mat = EnforceDof(sys.mat, sys.n_dofs, i),
                               !.rhs[i] = x_vals[i]],
                   x_vals, ax)
  ELSE EnforceLoopLateProduct(i + 1,
                   [sys EXCEPT !.rhs[i] =
                      @ - cs_sdm_matvec(sys.n_dofs, sys.mat, x_vals)[i]],
                   x_vals, ax)

\* Variant of EnforceLoop: the enforced value is added to rhs[i]
RECURSIVE EnforceLoopAccumulates(_, _, _, _)
EnforceLoopAccumulates(i, sys, x_vals, ax) ==
  IF i >= sys.n_dofs THEN sys
  ELSE IF sys.intern_forced_ids[i] > -1
  THEN EnforceLoopAccumulates(i + 1,
                   [sys EXCEPT !.mat = EnforceDof(sys.mat, sys.n_dofs, i),
                               !.rhs[i] = @ + x_vals[i]],
                   x_vals, ax)
  ELSE EnforceLoopAccumulates(i + 1, [sys EXCEPT !.rhs[i] = @ - ax[i]],
                              x_vals, ax)

\* The second pass from DoF i to the last one
RECURSIVE EnforceLoop(_, _, _, _)
EnforceLoop(i, sys, x_vals, ax) ==
  IF i >= sys.n_dofs THEN sys
  ELSE IF sys.intern_forced_ids[i] > -1
  THEN EnforceLoop(i + 1,
                   [sys EXCEPT !.mat = EnforceDof(sys.mat, sys.n_dofs, i),
                               !.rhs[i] = x_vals[i]],
                   x_vals, ax)
  ELSE EnforceLoop(i + 1, [sys EXCEPT !.rhs[i] = @ - ax[i]], x_vals, ax)

\* The cell system cs_equation_enforced_internal_dofs leaves
EnforcedSys(sys, q) ==
  IF sys.has_internal_enforcement = FALSE THEN sys
  ELSE LET x_vals == XVals(sys, q)
           ax == cs_sdm_matvec(sys.n_dofs, sys.mat, x_vals)
       IN EnforceLoop(0, sys, x_vals, ax)

\* The function is called on a cell system, and a second time on the cell
\* system it has left
cs_equation_enforced_internal_dofs ==
  /\ enf_pc \in {"built", "returned"}
  /\ enf_pc' = IF enf_pc = "built" THEN "returned" ELSE "again"
  /\ IF enf_csys.has_internal_enforcement = FALSE
     THEN UNCHANGED <<enf_csys, enf_cb>>
     ELSE LET n == enf_csys.n_dofs
              x_vals == XVals(enf_csys, enf_eqp)
              ax == cs_sdm_matvec(n, enf_csys.mat, x_vals)
          IN /\ enf_cb' = [enf_cb EXCEPT !.values =
                             [k \in Range(2 * n) |->
                                IF k < n THEN x_vals[k] ELSE ax[k - n]]]
             /\ enf_csys' = EnforcedSys(enf_csys, enf_eqp)
  /\ UNCHANGED <<enf_eqp, enf_pre>>
  /\ UNCHANGED <<asmVars, parVars, mpiVars, memVars>>

InitEnf ==
  /\ AsmIdle
  /\ ParIdle
  /\ MpiIdle
  /\ enf_pc = "built"
  /\ enf_eqp = [enforced_dof_values |->
                  [k \in Range(Len(EnforcedDofValues)) |->
                     EnforcedDofValues[k + 1]]]
  /\ \E n \in 1 .. MaxDofs :
       /\ enf_cb = [values |-> [k \in Range(2 * n) |-> ScratchValue]]
       /\ \E val \in [Range(n * n) -> MatValues],
             rhs \in [Range(n) -> RhsValues],
             ids \in [Range(n) -> -1 .. Len(EnforcedDofValues) - 1],
             flag \in BOOLEAN :
            enf_csys = [n_dofs |-> n, mat |-> val, rhs |-> rhs,
                        intern_forced_ids |-> ids,
                        has_internal_enforcement |-> flag]
  /\ enf_pre = [csys |-> enf_csys, cb |-> enf_cb]

NextEnf == cs_equation_enforced_internal_dofs

SpecEnf == InitEnf /\ [][NextEnf]_vars

Forced(sys) == {i \in Range(sys.n_dofs) : sys.intern_forced_ids[i] > -1}

\* C4: when the function returns for a cell system with
\* has_internal_enforcement set, every enforced DoF i has its prescribed
\* value in rhs[i], 1 on the diagonal of row i and 0 elsewhere in row i
C4_EnforcementExact ==
  (enf_pc = "returned" /\ enf_pre.csys.has_internal_enforcement)
    => \A i \in Forced(enf_pre.csys) :
         /\ enf_csys.rhs[i] =
              enf_eqp.enforced_dof_values[enf_csys.intern_forced_ids[i]]
         /\ \A j \in Range(enf_csys.n_dofs) :
              enf_csys.mat[i * enf_csys.n_dofs + j] = IF j = i THEN 1 ELSE 0

\* C4 witness: a system of two DoFs, one enforced and one free, whose
\* enforced row was not a row of the identity, has been processed
C4_Witness ==
  /\ enf_pc = "returned"
  /\ enf_pre.csys.has_internal_enforcement
  /\ enf_pre.csys.n_dofs = 2
  /\ Forced(enf_pre.csys) = {1}
  /\ enf_pre.csys.mat[2] = 2 /\ enf_pre.csys.mat[3] = -1
  /\ enf_pre.csys.rhs[1] = 0
  /\ enf_csys.rhs[1] = 5

\* C5: when the function returns for a cell system with no enforced DoF,
\* the matrix and the right-hand side are as they were when it was entered;
\* when has_internal_enforcement is false nothing at all has been written
C5_NoEnforcementNoChange ==
  enf_pc = "returned" =>
    /\ Forced(enf_pre.csys) = {} =>
         /\ enf_csys.mat = enf_pre.csys.mat
         /\ enf_csys.rhs = enf_pre.csys.rhs
    /\ enf_pre.csys.has_internal_enforcement = FALSE =>
         /\ enf_csys = enf_pre.csys
         /\ enf_cb = enf_pre.cb

\* C5 witness: the function has gone through its two passes (the flag is
\* set, the scratch array is reset) on a system with no enforced DoF
C5_Witness ==
  /\ enf_pc = "returned"
  /\ enf_pre.csys.has_internal_enforcement
  /\ Forced(enf_pre.csys) = {}
  /\ enf_pre.csys.n_dofs = 2
  /\ enf_cb # enf_pre.cb
  /\ enf_pre.csys.rhs[0] = 3

(***************************************************************************)
(* Partitioned mesh: range sets and interfaces                             *)
(***************************************************************************)
Ranks == Range(n_ranks)

GhostKinds == {"none", "next", "prev", "both"}
LocalOrders == {"owned_first", "ghost_first"}

\* First global id owned by rank r when n_glob entities are distributed
\* by blocks on nranks ranks
BlockStart(r, nranks, n_glob) == (r * n_glob) \div nranks

Owned(r, nranks, n_glob) ==
  {g \in Range(n_glob) :
     BlockStart(r, nranks, n_glob) <= g /\ g < BlockStart(r + 1, nranks, n_glob)}

\* Entities of the neighbouring ranks which rank r also holds
Ghosts(r, nranks, n_glob, ghostkind) ==
  (IF ghostkind \in {"next", "both"} /\ r + 1 < nranks
   THEN {BlockStart(r + 1, nranks, n_glob)} ELSE {})
  \cup
  (IF ghostkind \in {"prev", "both"} /\ r > 0
   THEN {BlockStart(r, nranks, n_glob) - 1} ELSE {})

\* 0-based array from a sequence
ArrayOf(q) == [i \in Range(Len(q)) |-> q[i + 1]]

\* cs_range_set_t of rank r: g_id by local id, l_range the global ids owned
DistRangeSet(r, nranks, n_glob, ghostkind, order) ==
  LET own == SortedSeq(Owned(r, nranks, n_glob))
      gh == SortedSeq(Ghosts(r, nranks, n_glob, ghostkind))
      loc == IF order = "owned_first" THEN own \o gh ELSE gh \o own
  IN [n_elts |-> Len(loc),
      g_id |-> ArrayOf(loc),
      l_range |-> <<BlockStart(r, nranks, n_glob),
                    BlockStart(r + 1, nranks, n_glob)>>]

IsOwned(rset, i) ==
  rset.g_id[i] >= rset.l_range[1] /\ rset.g_id[i] < rset.l_range[2]

\* Local ids of the owned entities, in increasing order
OwnedLocalIds(rset) == SortedSeq({i \in Range(rset.n_elts) : IsOwned(rset, i)})

\* cs_range_set_gather with src_val = dest_val: the values of the owned
\* entities are packed at the head of the array (stride values by
\* entity, contiguous), the rest of the array is left as it is
cs_range_set_gather(rset, stride, val) ==
  LET ids == OwnedLocalIds(rset)
  IN [k \in DOMAIN val |->
        IF k < stride * Len(ids)
        THEN val[stride * ids[(k \div stride) + 1] + (k % stride)]
        ELSE val[k]]

\* Copies of local entity i of rank r held by the other ranks
Peers(rsts, r, i) ==
  UNION {{<<q, j>> : j \in {l \in Range(rsts[q].n_elts) :
                               rsts[q].g_id[l] = rsts[r].g_id[i]}} :
         q \in (DOMAIN rsts) \ {r}}

\* Position of value k of entity i in an array of n_elts entities
VarIndex(n_elts, stride, interlace, i, k) ==
  IF interlace THEN i * stride + k ELSE k * n_elts + i

\* cs_interface_set_sum: on every rank, each value of an entity held by
\* several ranks becomes the sum of the values the ranks hold for it.
\* var gives the array of each rank, n_elts its number of entities
cs_interface_set_sum(rsts, n_elts, stride, interlace, var) ==
  [r \in DOMAIN var |->
     [idx \in DOMAIN var[r] |->
        LET hit == {ik \in Range(rsts[r].n_elts) \X Range(stride) :
                      VarIndex(n_elts[r], stride, interlace, ik[1], ik[2]) = idx}
        IN IF hit = {} THEN var[r][idx]
           ELSE LET ik == CHOOSE h \in hit : TRUE
                    peers == Peers(rsts, r, ik[1])
                IN var[r][idx]
                   + SumOver(peers,
                       [p \in peers |->
                          var[p[1]][VarIndex(n_elts[p[1]], stride, interlace,
                                             p[2], ik[2])]])]]

\* cs_parall_counter: sum over the ranks
cs_parall_counter(cpt) == SumOver(DOMAIN cpt, cpt)

(***************************************************************************)
(* Preparation of the linear system                                        *)
(***************************************************************************)
BValues == {1, 2}     \* values of the right-hand side built on a rank

\* Variant of PrepCalls: b is gathered, then summed on the interfaces
PrepCallsGatherFirst(nranks) ==
  IF nranks > 1
  THEN <<"gather_x", "gather_b", "sum_b", "counter">>
  ELSE <<"counter">>

\* Variant of PrepCalls: the number of ranks is not tested
PrepCallsAnyRanks(nranks) ==
  <<"gather_x", "sum_b", "gather_b", "counter">>

\* Variant of PrepCalls: b is gathered without the sum on the interfaces
PrepCallsNoSum(nranks) ==
  IF nranks > 1
  THEN <<"gather_x", "gather_b", "counter">>
  ELSE <<"counter">>

\* The calls cs_equation_prepare_system makes, in their order
PrepCalls(nranks) ==
  IF nranks > 1
  THEN <<"gather_x", "sum_b", "gather_b", "counter">>
  ELSE <<"counter">>

\* The call rank r is about to make, "return" after the last one
NextCall(r) ==
  IF status # "run" \/ ps[r].skip THEN "none"
  ELSE IF ~ps[r].entered THEN "enter"
  ELSE IF ps[r].pos < Len(PrepCalls(n_ranks))
  THEN PrepCalls(n_ranks)[ps[r].pos + 1]
  ELSE "return"

\* What an assertion on cond does: it passes when cond holds; when cond does
\* not hold it aborts, or passes when assertions are compiled out
AssertOutcomes(cond) == IF cond THEN {"pass"} ELSE {"abort", "pass"}

\* Rank r enters cs_equation_prepare_system:
\* assert(n_gather_elts <= n_scatter_elts), with n_gather_elts the number of
\* rows of the matrix and n_scatter_elts = x_size
PrepEnter(r) ==
  /\ NextCall(r) = "enter"
  /\ \E out \in AssertOutcomes(ps[r].n_rows <= rsets[r].n_elts) :
       IF out = "abort"
       THEN status' = "fatal" /\ UNCHANGED ps
       ELSE ps' = [ps EXCEPT ![r].entered = TRUE] /\ UNCHANGED status
  /\ UNCHANGED <<n_ranks, rsets, ps_pre, bal, bal_pre>>
  /\ UNCHANGED <<flags, connect, n_dofbyx, x2x, rs, cells, ma, matrix, n_threads,
                 cs_assembly_buffers, add_call, oob, done>>
  /\ UNCHANGED <<parVars, enfVars, memVars>>

Called(w, call) == [w EXCEPT !.pos = @ + 1, !.calls = Append(@, call)]

\* Variant of GatheredX: x is summed on the interfaces as b is, then
\* gathered
GatheredXSummed(rsts, r, xs) ==
  cs_range_set_gather(
    rsts[r], 1,
    cs_interface_set_sum(rsts, [q \in DOMAIN rsts |-> rsts[q].n_elts],
                         1, FALSE, xs)[r])

\* x of rank r after the first call of the parallel block: the gather
\* alone, xs being the x of each rank
GatheredX(rsts, r, xs) == cs_range_set_gather(rsts[r], 1, xs[r])

\* cs_range_set_gather(rset, CS_REAL_TYPE, stride, x, x) on rank r
PrepGatherX(r) ==
  /\ NextCall(r) = "gather_x"
  /\ ps' = [ps EXCEPT ![r] =
              [Called(@, "gather_x") EXCEPT
                 !.x = GatheredX(rsets, r, [q \in Ranks |-> ps[q].x])]]
  /\ UNCHANGED <<n_ranks, rsets, ps_pre, bal, bal_pre>>
  /\ UNCHANGED <<asmVars, parVars, enfVars, memVars>>

\* cs_interface_set_sum(rset->ifs, n_scatter_elts, stride, false, ., b):
\* an exchange between the ranks, which all have to be at this call
PrepSumB ==
  /\ \A r \in Ranks : NextCall(r) = "sum_b"
  /\ LET summed == cs_interface_set_sum(rsets,
                                        [r \in Ranks |-> rsets[r].n_elts],
                                        1, FALSE,
                                        [r \in Ranks |-> ps[r].b])
     IN ps' = [r \in Ranks |->
                 [Called(ps[r], "sum_b") EXCEPT !.b = summed[r]]]
  /\ UNCHANGED <<n_ranks, rsets, ps_pre, bal, bal_pre>>
  /\ UNCHANGED <<asmVars, parVars, enfVars, memVars>>

\* cs_range_set_gather(rset, CS_REAL_TYPE, stride, b, b) on rank r
PrepGatherB(r) ==
  /\ NextCall(r) = "gather_b"
  /\ ps' = [ps EXCEPT ![r] =
              [Called(@, "gather_b") EXCEPT
                 !.b = cs_range_set_gather(rsets[r], 1, ps[r].b)]]
  /\ UNCHANGED <<n_ranks, rsets, ps_pre, bal, bal_pre>>
  /\ UNCHANGED <<asmVars, parVars, enfVars, memVars>>

\* Variant of LocalNnz: the number of rows of the matrix
LocalNnzRows(w) == w.n_rows

\* nnz = row_index[n_gather_elts] of the matrix of a rank
LocalNnz(w) == w.row_index[w.n_rows]

\* nnz = row_index[n_gather_elts], cs_parall_counter(&nnz, 1) and return:
\* a reduction over the ranks, which all have to be at this call
PrepCounter ==
  /\ \A r \in Ranks : NextCall(r) = "counter"
  /\ LET nnz == cs_parall_counter([r \in Ranks |-> LocalNnz(ps[r])])
     IN ps' = [r \in Ranks |-> [Called(ps[r], "counter") EXCEPT !.nnz = nnz]]
  /\ UNCHANGED <<n_ranks, rsets, ps_pre, bal, bal_pre>>
  /\ UNCHANGED <<asmVars, parVars, enfVars, memVars>>

\* The ranks and the range sets of a partitioned mesh
InitRanks ==
  /\ n_ranks \in 1 .. MaxRanks
  /\ \E n_glob \in n_ranks .. MaxGlobal :
     \E ghostkind \in GhostKinds, order \in LocalOrders :
       rsets = [r \in Ranks |->
                  DistRangeSet(r, n_ranks, n_glob, ghostkind, order)]

BalIdle == bal = << >> /\ bal_pre = << >>

RowIndexKinds == {"chain", "ranked"}

\* row_index of the MSR matrix of rank r: two extra-diagonal entries by
\* row, or r + 1 by row
RowIndex(kind, r, n_rows) ==
  [k \in Range(n_rows + 1) |-> IF kind = "chain" THEN 2 * k ELSE (r + 1) * k]

\* The arguments of cs_equation_prepare_system on each rank: x holds a value
\* proper to each entity of each rank, b the values bs, the matrix has
\* rows[r] rows; the ranks of skips do not call the function
PrepArgs(bs, rows, rikind, skips) ==
  [r \in Ranks |->
     [pos |-> 0,
      entered |-> FALSE,
      skip |-> r \in skips,
      x |-> [i \in Range(rsets[r].n_elts) |-> 10 * (r + 1) + i],
      b |-> [i \in Range(rsets[r].n_elts) |-> bs[r][i]],
      n_rows |-> rows[r],
      row_index |-> RowIndex(rikind, r, rows[r]),
      nnz |-> 0,
      calls |-> << >>]]

\* Every rank calls the function, with a matrix which has one row by owned
\* entity
InitPrep ==
  /\ AsmIdle /\ ParIdle /\ EnfIdle /\ BalIdle
  /\ InitRanks
  /\ \E bs \in [Ranks -> [Range(MaxGlobal) -> BValues]],
        rikind \in RowIndexKinds :
       ps = PrepArgs(bs, [r \in Ranks |-> Len(OwnedLocalIds(rsets[r]))],
                     rikind, {})
  /\ ps_pre = [r \in Ranks |-> [x |-> ps[r].x, b |-> ps[r].b]]

NextPrep ==
  \/ \E r \in Ranks : PrepEnter(r)
  \/ \E r \in Ranks : PrepGatherX(r)
  \/ PrepSumB
  \/ \E r \in Ranks : PrepGatherB(r)
  \/ PrepCounter

SpecPrep == InitPrep /\ [][NextPrep]_vars

AllReturned == \A r \in Ranks : "counter" \in {ps[r].calls[k] : k \in DOMAIN ps[r].calls}

\* Local ids of global entity g, by rank holding it
Holders(g) ==
  UNION {{<<r, i>> : i \in {l \in Range(rsets[r].n_elts) : rsets[r].g_id[l] = g}} :
         r \in Ranks}

SharedEntities == {g \in Range(MaxGlobal) : Cardinality(Holders(g)) > 1}

OwnerOf(g) ==
  CHOOSE r \in Ranks : rsets[r].l_range[1] <= g /\ g < rsets[r].l_range[2]

Before(calls, first, second) ==
  \E k1 \in DOMAIN calls : \E k2 \in DOMAIN calls :
    calls[k1] = first /\ calls[k2] = second /\ k1 < k2

\* C6: with several ranks, once every rank has returned from
\* cs_equation_prepare_system, the slot of a shared entity in the compact b
\* of its owner is the sum of the values the ranks holding the entity had
\* for it in their b on entry, and on every rank the sum on the interfaces
\* was made before the gather of b
C6_SharedRhsSummed ==
  (n_ranks > 1 /\ AllReturned) =>
    /\ \A g \in SharedEntities :
         LET o == OwnerOf(g)
             holders == Holders(g)
         IN ps[o].b[g - rsets[o].l_range[1]] =
              SumOver(holders, [h \in holders |-> ps_pre[h[1]].b[h[2]]])
    /\ \A r \in Ranks : Before(ps[r].calls, "sum_b", "gather_b")

\* C6 witness: two ranks have returned, they share an entity for which they
\* held different values, and the owner holds it after a ghost
C6_Witness ==
  /\ n_ranks = 2 /\ AllReturned
  /\ \E g \in SharedEntities :
       /\ OwnerOf(g) = 1
       /\ rsets[1].g_id[0] # g
       /\ \E h1 \in Holders(g) : \E h2 \in Holders(g) :
            ps_pre[h1[1]].b[h1[2]] = 1 /\ ps_pre[h2[1]].b[h2[2]] = 2

\* C7: with one rank, when cs_equation_prepare_system has returned, x and b
\* are as on entry and neither a gather nor a sum on the interfaces was
\* called
C7_SingleRankIdentity ==
  (n_ranks = 1 /\ AllReturned) =>
    \A r \in Ranks :
      /\ ps[r].x = ps_pre[r].x
      /\ ps[r].b = ps_pre[r].b
      /\ ps[r].calls = <<"counter">>

\* C7 witness: the function has returned on a single rank holding three
\* entities with different values in b
C7_Witness ==
  /\ n_ranks = 1 /\ AllReturned
  /\ rsets[0].n_elts = 3
  /\ ps[0].b[0] = 1 /\ ps[0].b[1] = 2

(***************************************************************************)
(* Balance structures                                                      *)
(***************************************************************************)
NTerms == 7          \* arrays of b->balance: the balance and its six terms
UnsteadyTerm == 1    \* b->unsteady_term = b->balance + size
ReactionTerm == 2    \* b->reaction_term = b->balance + 2*size
BoundaryTerm == 6    \* b->boundary_term = b->balance + 6*size

cs_flag_primal_vtx == {"PRIMAL", "VERTEX"}
cs_flag_primal_cell == {"PRIMAL", "CELL"}
Locations == {cs_flag_primal_vtx, cs_flag_primal_cell}

NoBalance == [size |-> 0, location |-> {}, balance |-> << >>]

\* Position of term k of entity i in b->balance
TermIndex(size, k, i) == k * size + i

\* Variant of BalanceAfterReset: only the first array is set to zero
BalanceAfterResetFirst(b) ==
  IF b = NoBalance \/ b.size < 1 THEN b
  ELSE [b EXCEPT !.balance = [idx \in Range(NTerms * b.size) |->
                                IF idx < b.size THEN 0 ELSE b.balance[idx]]]

\* cs_equation_balance_reset called on the structure b of a rank
BalanceAfterReset(b) ==
  IF b = NoBalance \/ b.size < 1 THEN b
  ELSE [b EXCEPT !.balance = [idx \in Range(NTerms * b.size) |-> 0]]

\* cs_equation_balance_create for a valid location: the arrays are
\* allocated, with whatever the memory holds, and set to zero
cs_equation_balance_create(location, size) ==
  BalanceAfterReset([size |-> size, location |-> location,
                     balance |-> [idx \in Range(NTerms * size) |-> ScratchValue]])

AccumTerms == {UnsteadyTerm, ReactionTerm, BoundaryTerm}
AccumValues == {1, -1}

NAccum == SumOver(Ranks, [r \in Ranks |-> bal[r].n_acc])

\* The discretization adds a contribution to a term of entity i on rank r
BalanceAccumulate(r, i, k, v) ==
  /\ status = "run"
  /\ bal[r].pc = "created" /\ bal[r].b # NoBalance
  /\ NAccum < MaxAccum
  /\ i < bal[r].b.size
  /\ bal' = [bal EXCEPT ![r].b.balance[TermIndex(bal[r].b.size, k, i)] = @ + v,
                        ![r].n_acc = @ + 1,
                        ![r].last = "accumulate"]
  /\ UNCHANGED <<n_ranks, rsets, ps, ps_pre, bal_pre>>
  /\ UNCHANGED <<asmVars, parVars, enfVars, memVars>>

cs_equation_balance_reset(r) ==
  /\ status = "run"
  /\ bal[r].pc = "created" /\ bal[r].last # "reset"
  /\ bal' = [bal EXCEPT ![r].b = BalanceAfterReset(@), ![r].last = "reset"]
  /\ UNCHANGED <<n_ranks, rsets, ps, ps_pre, bal_pre>>
  /\ UNCHANGED <<asmVars, parVars, enfVars, memVars>>

\* Variant of BalanceSumArgs: the terms of an entity are said contiguous
BalanceSumArgsInterlaced(b) ==
  [n_elts |-> b.size, stride |-> NTerms, interlace |-> TRUE]

\* Arguments cs_equation_balance_sync gives to cs_interface_set_sum
BalanceSumArgs(b) ==
  [n_elts |-> b.size, stride |-> NTerms, interlace |-> FALSE]

\* Variant of cs_equation_balance_sync: the location of the balance is not
\* tested
BalanceSyncAnyLocation(r) ==
  /\ status = "run"
  /\ bal[r].pc = "created"
  /\ bal_pre' = [bal_pre EXCEPT ![r] = bal[r].b.balance]
  /\ IF n_ranks < 2
     THEN bal' = [bal EXCEPT ![r].pc = "synced", ![r].last = "sync"] /\ UNCHANGED status
     ELSE IF bal[r].b = NoBalance
     THEN status' = "fatal" /\ UNCHANGED bal
     ELSE bal' = [bal EXCEPT ![r].pc = "sum", ![r].last = "sync"] /\ UNCHANGED status
  /\ UNCHANGED <<n_ranks, rsets, ps, ps_pre>>
  /\ UNCHANGED <<flags, connect, n_dofbyx, x2x, rs, cells, ma, matrix, n_threads,
                 cs_assembly_buffers, add_call, oob, done>>
  /\ UNCHANGED <<parVars, enfVars, memVars>>

\* cs_equation_balance_sync on rank r, up to the exchange between ranks
cs_equation_balance_sync(r) ==
  /\ status = "run"
  /\ bal[r].pc = "created"
  /\ bal_pre' = [bal_pre EXCEPT ![r] = bal[r].b.balance]
  /\ IF n_ranks < 2
     THEN bal' = [bal EXCEPT ![r].pc = "synced", ![r].last = "sync"] /\ UNCHANGED status
     ELSE IF bal[r].b = NoBalance
     THEN status' = "fatal" /\ UNCHANGED bal
     ELSE IF cs_flag_test(bal[r].b.location, cs_flag_primal_vtx)
     THEN bal' = [bal EXCEPT ![r].pc = "sum", ![r].last = "sync"] /\ UNCHANGED status
     ELSE bal' = [bal EXCEPT ![r].pc = "synced", ![r].last = "sync"] /\ UNCHANGED status
  /\ UNCHANGED <<n_ranks, rsets, ps, ps_pre>>
  /\ UNCHANGED <<flags, connect, n_dofbyx, x2x, rs, cells, ma, matrix, n_threads,
                 cs_assembly_buffers, add_call, oob, done>>
  /\ UNCHANGED <<parVars, enfVars, memVars>>

\* The exchange of cs_interface_set_sum, once every rank has called it, and
\* the return of cs_equation_balance_sync
BalanceSyncSum ==
  /\ status = "run"
  /\ \A r \in Ranks : bal[r].pc = "sum"
  /\ LET args == [r \in Ranks |-> BalanceSumArgs(bal[r].b)]
         summed == cs_interface_set_sum(rsets,
                                        [r \in Ranks |-> args[r].n_elts],
                                        args[0].stride, args[0].interlace,
                                        [r \in Ranks |-> bal[r].b.balance])
     IN bal' = [r \in Ranks |->
                  [bal[r] EXCEPT !.pc = "synced", !.b.balance = summed[r]]]
  /\ UNCHANGED <<n_ranks, rsets, ps, ps_pre, bal_pre>>
  /\ UNCHANGED <<asmVars, parVars, enfVars, memVars>>

PrepIdle == ps = << >> /\ ps_pre = << >>

\* Every rank has its balance structure, created at the vertices or at the
\* cells it owns, or none has one
InitBal ==
  /\ AsmIdle /\ ParIdle /\ EnfIdle /\ PrepIdle
  /\ InitRanks
  /\ \E location \in Locations, created \in BOOLEAN :
       bal = [r \in Ranks |->
                [pc |-> "created",
                 b |-> IF created
                       THEN cs_equation_balance_create(
                              location,
                              IF cs_flag_test(location, cs_flag_primal_vtx)
                              THEN rsets[r].n_elts
                              ELSE Len(OwnedLocalIds(rsets[r])))
                       ELSE NoBalance,
                 n_acc |-> 0,
                 last |-> "create"]]
  /\ bal_pre = [r \in Ranks |-> << >>]

NextBal ==
  \/ \E r \in Ranks : \E i \in Range(MaxGlobal) :
       \E k \in AccumTerms, v \in AccumValues : BalanceAccumulate(r, i, k, v)
  \/ \E r \in Ranks : cs_equation_balance_reset(r)
  \/ \E r \in Ranks : cs_equation_balance_sync(r)
  \/ BalanceSyncSum

SpecBal == InitBal /\ [][NextBal]_vars

AllSynced == \A r \in Ranks : bal[r].pc = "synced"

AtVertices == \A r \in Ranks : cs_flag_test(bal[r].b.location, cs_flag_primal_vtx)

\* C8: with several ranks, once every rank has returned from
\* cs_equation_balance_sync on a balance at vertices, each term of a vertex
\* held by several ranks is, on each of them, the sum of the values these
\* ranks had for this term and this vertex on entry; so the terms of the
\* vertex add up to the total of what was accumulated for it
C8_BalanceSummed ==
  (n_ranks > 1 /\ AllSynced /\ AtVertices) =>
    \A g \in SharedEntities :
      LET holders == Holders(g)
          Pre(k) == SumOver(holders,
                      [h \in holders |->
                         bal_pre[h[1]][TermIndex(bal[h[1]].b.size, k, h[2])]])
          Post(h, k) == bal[h[1]].b.balance[TermIndex(bal[h[1]].b.size, k, h[2])]
      IN \A h \in holders :
           /\ \A k \in Range(NTerms) : Post(h, k) = Pre(k)
           /\ SumOver(Range(NTerms), [k \in Range(NTerms) |-> Post(h, k)])
                = SumOver(Range(NTerms), [k \in Range(NTerms) |-> Pre(k)])

\* C8 witness: +1 was accumulated in the unsteady term of a shared vertex on
\* one rank and -1 in its reaction term on another rank; after the
\* synchronization both ranks hold +1 and -1, which add up to 0
C8_Witness ==
  /\ n_ranks = 2 /\ AllSynced /\ AtVertices
  /\ \E g \in SharedEntities :
       \E h1 \in Holders(g) : \E h2 \in Holders(g) :
         /\ h1[1] # h2[1]
         /\ bal[h1[1]].b.size > 1
         /\ bal_pre[h1[1]][TermIndex(bal[h1[1]].b.size, UnsteadyTerm, h1[2])] = 1
         /\ bal_pre[h2[1]][TermIndex(bal[h2[1]].b.size, ReactionTerm, h2[2])] = -1
         /\ bal_pre[h1[1]][TermIndex(bal[h1[1]].b.size, ReactionTerm, h1[2])] = 0
         /\ bal_pre[h2[1]][TermIndex(bal[h2[1]].b.size, UnsteadyTerm, h2[2])] = 0
         /\ \A h \in {h1, h2} :
              /\ bal[h[1]].b.balance[TermIndex(bal[h[1]].b.size, UnsteadyTerm, h[2])] = 1
              /\ bal[h[1]].b.balance[TermIndex(bal[h[1]].b.size, ReactionTerm, h[2])] = -1

(***************************************************************************)
(* Structures built with a range set which disagrees with the mesh         *)
(***************************************************************************)
InitCfg ==
  /\ n_threads = 1
  /\ ParIdle
  /\ OtherIdle
  /\ \E n \in 1 .. MaxElts, w \in 1 .. MaxWidth, adjkind \in AdjKinds,
        gidkind \in MismatchKinds, shape \in Shapes, matkind \in MatKinds :
       /\ w <= n
       /\ InitMesh(VbSchemes, n, w, w, adjkind, gidkind, shape, matkind)

NextCfg ==
  \/ cs_equation_allocate_structures
  \/ \E c \in DOMAIN cells : cs_equation_assemble_matrix(c)
  \/ \E c \in DOMAIN cells : cs_equation_assemble_block_matrix(c)

SpecCfg == InitCfg /\ [][NextCfg]_vars

RangeMismatch == rs.l_range[2] - rs.l_range[1] # connect.n_elts * n_dofbyx

\* C11 (as claimed): when the local range of the range set is not
\* n_elts * n_dofbyx, _build_matrix_assembler stops with a fatal error: no
\* batch of couples is submitted, cs_matrix_assembler_compute is not called
\* and no assembler is returned
C11_MismatchFatal ==
  RangeMismatch =>
    /\ ~ma.built
    /\ ~ma.computed
    /\ ma.calls = << >>
    /\ ma.couples = {}

(***************************************************************************)
(* Preparation of a system whose matrix disagrees with the range set       *)
(***************************************************************************)
RowShifts == {-1, 1, 2}

\* Every rank calls the function with a matrix whose number of rows is not
\* the number of entities the rank owns
InitPrepRows ==
  /\ AsmIdle /\ ParIdle /\ EnfIdle /\ BalIdle
  /\ InitRanks
  /\ \E bs \in [Ranks -> [Range(MaxGlobal) -> BValues]],
        rikind \in RowIndexKinds, shift \in RowShifts :
       ps = PrepArgs(bs,
                     [r \in Ranks |-> Len(OwnedLocalIds(rsets[r])) + shift],
                     rikind, {})
  /\ ps_pre = [r \in Ranks |-> [x |-> ps[r].x, b |-> ps[r].b]]

SpecPrepRows == InitPrepRows /\ [][NextPrep]_vars

RowMismatch(r) == ps[r].n_rows # Len(OwnedLocalIds(rsets[r]))

CallsOf(r) == {ps[r].calls[k] : k \in DOMAIN ps[r].calls}

\* C12 (as claimed): on a rank whose matrix does not have as many rows as
\* the compact view of the range set has elements,
\* cs_equation_prepare_system stops with a fatal error: it does not go past
\* its entry, x and b are neither gathered nor summed
C12_RowMismatchFatal ==
  \A r \in Ranks :
    RowMismatch(r) =>
      /\ ps[r].entered => status = "fatal"
      /\ CallsOf(r) \cap {"gather_x", "sum_b", "gather_b"} = {}
      /\ ps[r].x = ps_pre[r].x
      /\ ps[r].b = ps_pre[r].b

(***************************************************************************)
(* Preparation of a system when some ranks do not make the call            *)
(***************************************************************************)
\* Any set of ranks may skip the call; the matrices agree with the range sets
InitPrepSkip ==
  /\ AsmIdle /\ ParIdle /\ EnfIdle /\ BalIdle
  /\ InitRanks
  /\ \E bs \in [Ranks -> [Range(MaxGlobal) -> BValues]],
        rikind \in RowIndexKinds, skips \in SUBSET Ranks :
       ps = PrepArgs(bs, [r \in Ranks |-> Len(OwnedLocalIds(rsets[r]))],
                     rikind, skips)
  /\ ps_pre = [r \in Ranks |-> [x |-> ps[r].x, b |-> ps[r].b]]

\* Each rank is a running process: a step which stays possible is taken
SpecPrepSkip == InitPrepSkip /\ [][NextPrep]_vars /\ WF_vars(NextPrep)

NoSkip == \A r \in Ranks : ~ps[r].skip

Returned(r) == "counter" \in CallsOf(r)

IsPrefix(q, full) == Len(q) <= Len(full) /\ \A k \in DOMAIN q : q[k] = full[k]

\* C13: with several ranks, the calls a rank makes are always the head of
\* the same sequence (gather of x, sum of b, gather of b, reduction of nnz)
\* whatever its data; when every rank calls the function, every rank
\* returns; when a rank does not call it, no rank ever returns
C13_LockStep ==
  /\ [](n_ranks > 1 =>
          \A r \in Ranks :
            IsPrefix(ps[r].calls, <<"gather_x", "sum_b", "gather_b", "counter">>))
  /\ (NoSkip ~> AllReturned)
  /\ []((n_ranks > 1 /\ ~NoSkip) => \A r \in Ranks : ~Returned(r))

\* C13 witness: of two ranks, one does not call the function and the other
\* has gathered x and waits for the sum on the interfaces
C13_Witness ==
  /\ n_ranks = 2
  /\ \E r \in Ranks : \E q \in Ranks :
       /\ ps[r].skip
       /\ ~ps[q].skip
       /\ ps[q].calls = <<"gather_x">>
       /\ NextCall(q) = "sum_b"

\* C14: once every rank has returned from cs_equation_prepare_system, the
\* value returned on each rank is the sum over the ranks of
\* row_index[n_rows] of the matrix of the rank; with one rank it is
\* row_index[n_rows] of this rank
C14_NnzIsGlobalSum ==
  AllReturned =>
    \A r \in Ranks :
      /\ ps[r].nnz = SumOver(Ranks, [q \in Ranks |-> ps[q].row_index[ps[q].n_rows]])
      /\ n_ranks = 1 => ps[r].nnz = ps[r].row_index[ps[r].n_rows]

\* C14 witness: two ranks owning 1 and 2 entities, with 1 and 2 extra
\* diagonal entries by row, have returned 1 + 4 = 5
C14_Witness ==
  /\ n_ranks = 2 /\ AllReturned
  /\ ps[0].n_rows = 1 /\ ps[1].n_rows = 2
  /\ ps[0].row_index[1] = 1 /\ ps[1].row_index[2] = 4
  /\ ps[0].nnz = 5 /\ ps[1].nnz = 5

(***************************************************************************)
(* Choice of the add function of the values assembler                      *)
(***************************************************************************)
\* C15: once cs_equation_get_mav has been called, with stride 1 the add
\* function is the single-thread one below 2 threads whatever omp_choice,
\* the atomic one for ATOMIC, the critical one for CRITICAL; any other
\* omp_choice with 2 threads or more and any other stride give a fatal
\* error and no values assembler
C15_MavSelection ==
  mav # "none" =>
    /\ (mav_stride = 1 /\ n_threads < 2) => mav = "add_1_single"
    /\ (mav_stride = 1 /\ n_threads >= 2 /\ omp_choice = "ATOMIC")
         => mav = "add_1_atomic"
    /\ (mav_stride = 1 /\ n_threads >= 2 /\ omp_choice = "CRITICAL")
         => mav = "add_1_critic"
    /\ (mav_stride # 1
        \/ (n_threads >= 2 /\ omp_choice \notin {"ATOMIC", "CRITICAL"}))
         => (mav = "error" /\ status = "fatal")
    /\ mav \in {"add_1_single", "add_1_atomic", "add_1_critic", "error"}
    /\ mav = "error" => status = "fatal"

\* C15 witness: cs_equation_get_mav has been called with stride 1 and two
\* threads for an omp_choice which is neither ATOMIC nor CRITICAL
C15_Witness ==
  /\ mav = "error"
  /\ mav_stride = 1 /\ n_threads = 2 /\ omp_choice = "NONE"
  /\ status = "fatal"

(***************************************************************************)
(* Life of the shared structures: allocation, assembly, release            *)
(***************************************************************************)
\* The blocks cs_equation_free_structures frees: the work buffer, by thread
\* row_gids, col_gids, values and the buffer record, the array of buffers,
\* the matrix structures and their array, the matrix assemblers and their
\* array
FreedBlocks(nthreads) ==
  {<<"cs_equation_common_work_buffer">>}
  \cup ({"row_gids", "col_gids", "values", "assb"} \X Range(nthreads))
  \cup {<<"cs_assembly_buffers">>}
  \cup {<<"ms">>, <<"cs_equation_common_ms">>}
  \cup {<<"ma">>, <<"cs_equation_common_ma">>}

\* Ids of the arrays of structures and assemblers (CS_CDO_CONNECT_N_CASES
\* of them)
ConnectCases ==
  {"VTX_SCAL", "VTX_VECT", "FACE_SP0", "FACE_SP1", "FACE_SP2", "FACE_VHP1",
   "FACE_VHP2"}

\* cs_equation_get_matrix_structure: NULL when the array is not allocated
\* or the id is not one of the array, else the entry, which is set for
\* the vertex-based scheme of the run
cs_equation_get_matrix_structure(flag) ==
  IF <<"cs_equation_common_ms">> \notin heap \/ flag \notin ConnectCases
  THEN "NULL"
  ELSE IF <<"ms">> \in heap
          /\ flag = (IF n_dofbyx = 1 THEN "VTX_SCAL" ELSE "VTX_VECT")
  THEN "ms"
  ELSE "NULL"

\* cs_equation_free_structures: the assembly buffer of each thread and the
\* array of buffers are freed, the matrix assemblers are destroyed
cs_equation_free_structures ==
  /\ status = "run" /\ ma.built
  /\ cs_assembly_buffers' = << >>
  /\ ma' = NoAssembler
  /\ heap' = heap \ FreedBlocks(n_threads)
  /\ status' = "end"
  /\ UNCHANGED <<flags, connect, n_dofbyx, x2x, rs, cells, matrix, n_threads,
                 add_call, oob, done>>
  /\ UNCHANGED <<parVars, enfVars, mpiVars>>

InitLife ==
  /\ n_threads \in 1 .. MaxThreads
  /\ ParIdle
  /\ OtherIdle
  /\ \E n \in 1 .. MaxElts, w \in 1 .. MaxWidth, adjkind \in AdjKinds,
        gidkind \in GidKinds, matkind \in MatKinds :
       /\ w <= n
       /\ InitMesh(VbSchemes, n, w, w, adjkind, gidkind, "span", matkind)

NextLife ==
  \/ cs_equation_allocate_structures
  \/ \E c \in DOMAIN cells : cs_equation_assemble_matrix(c)
  \/ \E c \in DOMAIN cells : cs_equation_assemble_block_matrix(c)
  \/ cs_equation_free_structures

SpecLife == InitLife /\ [][NextLife]_vars

\* C16: the calls made on a matrix assembler are its creation, one
\* addition of couples by entity, then a single compute which is the last
\* call, and no addition was made on a computed assembler; once it is
\* computed, a step either leaves the assembler as it is or destroys it
C16_AddsBeforeCompute ==
  /\ [](ma.built =>
          /\ ~ma.error
          /\ Len(ma.events) = connect.n_elts + 2
          /\ ma.events[1] = "create"
          /\ \A k \in 2 .. (Len(ma.events) - 1) : ma.events[k] = "add_g_ids"
          /\ ma.events[Len(ma.events)] = "compute"
          /\ Len(ma.calls) = connect.n_elts)
  /\ [][ma.computed => (ma' = ma \/ ma' = NoAssembler)]_vars

\* C16 witness: an assembler of several entities is computed and cells have
\* been assembled with it since
C16_Witness ==
  /\ ma.computed
  /\ Len(ma.calls) >= 2
  /\ Len(done) >= 2

\* C17: when the last operation on the balance of a rank is
\* cs_equation_balance_create or cs_equation_balance_reset and its size is
\* at least 1, its 7 arrays of size entries hold 0 everywhere
C17_ResetZeroes ==
  \A r \in Ranks :
    (bal[r].last \in {"create", "reset"} /\ bal[r].b # NoBalance
     /\ bal[r].b.size >= 1)
      => /\ DOMAIN bal[r].b.balance = Range(NTerms * bal[r].b.size)
         /\ \A k \in Range(NTerms) : \A i \in Range(bal[r].b.size) :
              bal[r].b.balance[TermIndex(bal[r].b.size, k, i)] = 0

\* C17 witness: a balance of 2 entities or more was reset after two
\* contributions were added to it
C17_Witness ==
  \E r \in Ranks :
    /\ bal[r].last = "reset"
    /\ bal[r].n_acc = 2
    /\ bal[r].b # NoBalance
    /\ bal[r].b.size >= 2

Allocated == ma.built

\* C18: between allocation and release, each thread id in [0, n_threads)
\* has one assembly buffer and two threads do not have the same one; a
\* step between allocation and release (an assembly call) changes neither
\* the buffer a thread id gives nor the sizes of its arrays
C18_BuffersStable ==
  /\ [](Allocated =>
          /\ DOMAIN cs_assembly_buffers = Range(n_threads)
          /\ \A t \in Range(n_threads) :
               cs_equation_get_assembly_buffers(t) \in DOMAIN cs_assembly_buffers
          /\ \A t1 \in Range(n_threads) : \A t2 \in Range(n_threads) :
               t1 # t2 => cs_equation_get_assembly_buffers(t1)
                            # cs_equation_get_assembly_buffers(t2))
  /\ [][(Allocated /\ Allocated') =>
          \A t \in Range(n_threads) :
            LET pos == cs_equation_get_assembly_buffers(t)
            IN /\ cs_equation_get_assembly_buffers(t)' = pos
               /\ cs_assembly_buffers'[pos].buffer_size
                    = cs_assembly_buffers[pos].buffer_size
               /\ DOMAIN cs_assembly_buffers'[pos].values
                    = DOMAIN cs_assembly_buffers[pos].values
               /\ DOMAIN cs_assembly_buffers'[pos].row_gids
                    = DOMAIN cs_assembly_buffers[pos].row_gids
               /\ DOMAIN cs_assembly_buffers'[pos].col_gids
                    = DOMAIN cs_assembly_buffers[pos].col_gids
               /\ DOMAIN cs_assembly_buffers'[pos].dof_gids
                    = DOMAIN cs_assembly_buffers[pos].dof_gids]_vars

\* C18 witness: with two threads, two cells were assembled through the
\* buffer of thread 0, whose capacity is the one set at allocation
C18_Witness ==
  /\ Allocated
  /\ n_threads = 2
  /\ Len(done) >= 2
  /\ mab.buffer_size = LocAssemblerSize(connect, flags)
  /\ mab.buffer_size > 0
  /\ mab.values # cs_assembly_buffers[1].values

\* C19: a call of cs_equation_assemble_matrix or of
\* cs_equation_assemble_block_matrix (a step made while the structures are
\* allocated) leaves the cell systems (mat, rhs, dof_ids) and the range set
\* as they were, and with them the assembler, the adjacency and the buffers
\* of the other threads: only the buffer given to the call and the matrix
\* may change
C19_AssembleFrame ==
  [][(Allocated /\ Allocated') =>
       /\ \A c \in DOMAIN cells :
            /\ cells'[c].mat = cells[c].mat
            /\ cells'[c].rhs = cells[c].rhs
            /\ cells'[c].dof_ids = cells[c].dof_ids
       /\ cells' = cells
       /\ rs' = rs
       /\ ma' = ma /\ x2x' = x2x /\ connect' = connect
       /\ \A t \in Range(n_threads) :
            t # cs_equation_get_assembly_buffers(0)
              => cs_assembly_buffers'[t] = cs_assembly_buffers[t]]_vars

\* C19 witness: a cell with a non-zero local matrix was assembled, its
\* values are in the buffer and in the global matrix
C19_Witness ==
  /\ Allocated
  /\ Len(done) >= 1
  /\ add_call.c_id = done[Len(done)]
  /\ \E i \in DOMAIN cells[add_call.c_id].mat :
       \E j \in DOMAIN cells[add_call.c_id].mat[i] :
         cells[add_call.c_id].mat[i][j] # 0
  /\ matrix # ZeroMatrix(connect.n_elts * n_dofbyx)
  /\ \E k \in DOMAIN mab.values : mab.values[k] # 0

\* The loop on cells is started with an add function
LoopStarted == wk # << >>

AtFlush(t_id) == t_id \in DOMAIN wk /\ wk[t_id].pc = "flush"

\* C20: a call of cs_equation_assemble_matrix appends n_rows*n_rows triples
\* to the buffer and hands them to the matrix at most once before it
\* returns; with weakly fair threads no thread stays for ever before the
\* batched call (critical section included), and every cell of the loop is
\* eventually assembled
C20_AssemblyEnds ==
  /\ [](\A t_id \in DOMAIN wk :
          LET w == wk[t_id]
              n_rows == cells[w.c].n_dofs
          IN /\ w.pc \in {"flush", "add", "write", "end"}
                  => (w.n_app = n_rows * n_rows /\ w.k <= w.n_app)
             /\ w.n_flush = IF w.pc \in {"add", "write", "end"}
                            THEN w.n_done + 1 ELSE w.n_done)
  /\ \A t_id \in Range(MaxThreads) : AtFlush(t_id) ~> ~AtFlush(t_id)
  /\ LoopStarted ~> AllAssembled

\* C20 witness: with the critical section chosen, a thread is before the
\* batched call while the other thread is inside the critical section
C20_Witness ==
  /\ mav = "add_1_critic"
  /\ n_threads = 2
  /\ \E t_id \in DOMAIN wk :
       /\ wk[t_id].pc = "flush"
       /\ lock \notin {-1, t_id}
       /\ wk[t_id].n_app = cells[wk[t_id].c].n_dofs * cells[wk[t_id].c].n_dofs

\* C21: when cs_equation_enforced_internal_dofs returns, every DoF i which
\* is not enforced has rhs[i] = rhs_before[i] - sum over the enforced DoFs j
\* of M_before[i][j] * x_enf[j], M_before the matrix when the function was
\* entered
C21_RhsFromInitialMatrix ==
  (enf_pc = "returned" /\ enf_pre.csys.has_internal_enforcement)
    => LET pre == enf_pre.csys
           n == pre.n_dofs
       IN \A i \in Range(n) \ Forced(pre) :
            enf_csys.rhs[i] =
              pre.rhs[i]
              - SumOver(Forced(pre),
                        [j \in Range(n) |->
                           pre.mat[i * n + j]
                           * enf_eqp.enforced_dof_values[
                               Max(pre.intern_forced_ids[j], 0)]])

\* C21 witness: DoF 0 is enforced, DoF 1 is not and comes after it in the
\* loop; its right-hand side has taken the contribution of column 0, which
\* the loop had already reset
C21_Witness ==
  /\ enf_pc = "returned"
  /\ enf_pre.csys.has_internal_enforcement
  /\ enf_pre.csys.n_dofs = 2
  /\ Forced(enf_pre.csys) = {0}
  /\ enf_pre.csys.mat[2] = 2
  /\ enf_csys.mat[2] = 0
  /\ enf_csys.rhs[1] = enf_pre.csys.rhs[1] - 2 * 5

\* A dense row-major matrix of n rows is symmetric
Symmetric(val, n) ==
  \A i \in Range(n) : \A j \in Range(n) : val[i * n + j] = val[j * n + i]

\* C22: when cs_equation_enforced_internal_dofs returns, column i of every
\* row j # i is zero for each enforced DoF i, every entry whose row and
\* column are both not enforced is as it was, and a matrix which was
\* symmetric is symmetric
C22_SymmetryKept ==
  (enf_pc = "returned" /\ enf_pre.csys.has_internal_enforcement)
    => LET pre == enf_pre.csys
           n == pre.n_dofs
           free == Range(n) \ Forced(pre)
       IN /\ \A i \in Forced(pre) : \A j \in Range(n) \ {i} :
               enf_csys.mat[j * n + i] = 0
          /\ \A j \in free : \A k \in free :
               enf_csys.mat[j * n + k] = pre.mat[j * n + k]
          /\ Symmetric(pre.mat, n) => Symmetric(enf_csys.mat, n)

\* C22 witness: a symmetric matrix of two DoFs with non-zero off-diagonal
\* entries, of which DoF 1 is enforced, has been processed
C22_Witness ==
  /\ enf_pc = "returned"
  /\ enf_pre.csys.has_internal_enforcement
  /\ enf_pre.csys.n_dofs = 2
  /\ Forced(enf_pre.csys) = {1}
  /\ Symmetric(enf_pre.csys.mat, 2)
  /\ enf_pre.csys.mat[1] = -1
  /\ enf_csys.mat[1] = 0
  /\ enf_csys.mat[0] = enf_pre.csys.mat[0]

\* C28: cs_equation_enforced_internal_dofs called a second time, on the
\* cell system its first call has left and with the same enforced values,
\* leaves the matrix and the right-hand side of the first call
C28_Idempotent ==
  enf_pc = "again"
    => /\ enf_csys.mat = EnforcedSys(enf_pre.csys, enf_eqp).mat
       /\ enf_csys.rhs = EnforcedSys(enf_pre.csys, enf_eqp).rhs

\* C28 witness: the two calls were made on a system of two DoFs with DoF 0
\* enforced, which the first call has changed (matrix and right-hand side)
C28_Witness ==
  /\ enf_pc = "again"
  /\ enf_pre.csys.has_internal_enforcement
  /\ enf_pre.csys.n_dofs = 2
  /\ Forced(enf_pre.csys) = {0}
  /\ enf_csys.mat # enf_pre.csys.mat
  /\ enf_csys.rhs[0] = 5
  /\ enf_csys.rhs[1] # enf_pre.csys.rhs[1]

(***************************************************************************)
(* Assembly of cell systems of any size, the empty one included            *)
(***************************************************************************)
\* A scalar vertex-based mesh whose last cell system has no DoF
InitTrip ==
  /\ n_threads = 1
  /\ ParIdle
  /\ OtherIdle
  /\ \E n \in 1 .. MaxElts, w \in 1 .. MaxWidth, gidkind \in GidKinds,
        shape \in Shapes, matkind \in MatKinds :
       /\ w <= n
       /\ flags = [NoFlags EXCEPT !.vb = {"SCALAR", "POLY0"}]
       /\ n_dofbyx = 1
       /\ connect = [n_elts |-> n, n_max_vbyc |-> w, n_max_fbyc |-> w]
       /\ x2x = AdjacencyOfKind("band", n, w)
       /\ rs = RangeSet(gidkind, n)
       /\ cells = Append(MeshCells(shape, matkind, n, w, 1),
                         CellSys(shape, matkind, n, 0, 1))
       /\ matrix = ZeroMatrix(n)
       /\ ma = NoAssembler
       /\ cs_assembly_buffers = << >>
       /\ add_call = NoCall
       /\ oob = {}
       /\ heap = {}
       /\ done = << >>
       /\ status = "run"

NextTrip ==
  \/ cs_equation_allocate_structures
  \/ \E c \in DOMAIN cells : cs_equation_assemble_matrix(c)

SpecTrip == InitTrip /\ [][NextTrip]_vars

\* C23: a call of cs_equation_assemble_matrix on a cell system of n DoFs
\* leaves n*n triples in the buffer, the one at position i*n+j being
\* (g_id[dof_ids[i]], g_id[dof_ids[j]], M[i][j]), and hands them to the
\* matrix in one batch; for n = 0 it hands nothing to the matrix
C23_TriplesOneBatch ==
  [][\A c \in DOMAIN cells :
       (Allocated /\ done' = Append(done, c)) =>
         LET csys == cells[c]
             n == csys.n_dofs
             buf == cs_assembly_buffers'[cs_equation_get_assembly_buffers(0)]
         IN IF n = 0
            THEN add_call' = add_call /\ matrix' = matrix
            ELSE /\ add_call'.n_calls = add_call.n_calls + 1
                 /\ add_call'.c_id = c
                 /\ DOMAIN add_call'.entries = Range(n * n)
                 /\ \A i \in Range(n) : \A j \in Range(n) :
                      /\ add_call'.entries[i * n + j] =
                           [row |-> rs.g_id[csys.dof_ids[i]],
                            col |-> rs.g_id[csys.dof_ids[j]],
                            val |-> csys.mat[i][j]]
                      /\ buf.row_gids[i * n + j] = rs.g_id[csys.dof_ids[i]]
                      /\ buf.col_gids[i * n + j] = rs.g_id[csys.dof_ids[j]]
                      /\ buf.values[i * n + j] = csys.mat[i][j]]_vars

\* C23 witness: a cell system of two DoFs with distinct values and the
\* empty cell system have both been assembled, with one batch in all
C23_Witness ==
  /\ Allocated
  /\ Len(done) = 2
  /\ \E k \in DOMAIN done : cells[done[k]].n_dofs = 0
  /\ add_call.n_calls = 1
  /\ cells[add_call.c_id].n_dofs = 2
  /\ add_call.entries[1].val # add_call.entries[2].val
  /\ add_call.entries[1].row # add_call.entries[1].col

\* The triples of a batch, each with the number of times it is in the batch
TripleBag(entries) ==
  [e \in {entries[k] : k \in DOMAIN entries} |->
     Cardinality({k \in DOMAIN entries : entries[k] = e})]

\* dof_ids holds, block after block, the DoFs of one entity one after the
\* other
Interlaced(csys, b) ==
  \A k \in Range(csys.n_blocks) : \A comp \in Range(b) :
    csys.dof_ids[b * k + comp] = csys.dof_ids[b * k] + comp

\* C24: the batch cs_equation_assemble_block_matrix hands to the matrix for
\* a cell system by blocks with interlaced dof_ids holds the same triples,
\* each as many times, as the batch of cs_equation_assemble_matrix for the
\* same cell system
C24_BlockAsFlat ==
  (n_dofbyx > 1 /\ add_call.c_id # -1
   /\ Interlaced(cells[add_call.c_id], n_dofbyx))
    => TripleBag(add_call.entries)
         = TripleBag(AssembleEntries(cells[add_call.c_id], rs))

\* C24 witness: a cell system of two blocks of three DoFs, with distinct
\* values and global ids which are not the local ids, was assembled by
\* blocks; its batch is not in the order of the flat batch
C24_Witness ==
  /\ n_dofbyx = 3
  /\ add_call.c_id # -1
  /\ cells[add_call.c_id].n_blocks = 2
  /\ Interlaced(cells[add_call.c_id], n_dofbyx)
  /\ rs.g_id[0] # 0
  /\ cells[add_call.c_id].mat[0][1] # cells[add_call.c_id].mat[1][0]
  /\ Len(done) >= 1
  /\ add_call.entries # AssembleEntries(cells[add_call.c_id], rs)

\* Number of entities adjacent to entity i
Degree(adj, i) == adj.idx[i + 1] - adj.idx[i]

\* C25: _build_matrix_assembler makes one call of
\* cs_matrix_assembler_add_g_ids by entity i, with (deg(i)+1)*b*b couples:
\* the pairs of the DoFs of i, and for each entity j adjacent to i the pairs
\* of a DoF of i and a DoF of j; no batch is longer than the arrays grows
\* and gcols, of size b*b*(max degree + 1)
C25_CouplesByEntity ==
  Allocated =>
    LET b == n_dofbyx
        gid(e, d) == rs.g_id[b * e + d]
    IN /\ Len(ma.calls) = connect.n_elts
       /\ \A i \in Range(connect.n_elts) :
            LET batch == ma.calls[i + 1]
                nbrs == {x2x.ids[j] : j \in x2x.idx[i] .. (x2x.idx[i + 1] - 1)}
            IN /\ Len(batch) = (Degree(x2x, i) + 1) * b * b
               /\ SeqToSet(batch) =
                    {<<gid(i, d1), gid(e, d2)>> :
                       d1 \in Range(b), d2 \in Range(b), e \in nbrs \cup {i}}
               /\ Len(batch) <= ma.buf_size
       /\ \E i \in Range(connect.n_elts) :
            ma.buf_size = b * b * (Degree(x2x, i) + 1)
       /\ \A i \in Range(connect.n_elts) :
            ma.buf_size >= b * b * (Degree(x2x, i) + 1)

\* C25 witness: the assembler was built for three DoFs by entity on a mesh
\* with an entity of degree 2 and an entity of smaller degree
C25_Witness ==
  /\ Allocated
  /\ n_dofbyx = 3
  /\ \E i \in Range(connect.n_elts) :
       Degree(x2x, i) = 2 /\ Len(ma.calls[i + 1]) = 27
  /\ \E i \in Range(connect.n_elts) :
       Degree(x2x, i) < 2 /\ Len(ma.calls[i + 1]) < ma.buf_size

\* C26 (as claimed): after cs_equation_allocate_structures, the buffer of
\* every thread can hold the (b*m)*(b*m) triples and the b*m global ids of a
\* cell system of the scheme which was activated, here a scalar face-based
\* scheme (CDO-Fb or HHO-P0, with or without a vertex-based scheme): b = 1
\* DoF by face and m = n_max_fbyc faces by cell
C26_CapacityForEveryScheme ==
  Allocated =>
    \A t \in Range(n_threads) :
      LET buf == BufferAt(cs_equation_get_assembly_buffers(t))
          n_max == n_dofbyx * connect.n_max_fbyc
      IN /\ buf.buffer_size >= n_max * n_max
         /\ Cardinality(DOMAIN buf.dof_gids) >= n_max

\* C27: with several ranks, once every rank has returned from
\* cs_equation_prepare_system, the compact x of a rank holds for each entity
\* it owns the value this rank had for it on entry, whatever the other
\* ranks held for the entity; the only sum on the interfaces is the one of b
C27_XOnlyGathered ==
  (n_ranks > 1 /\ AllReturned) =>
    /\ \A r \in Ranks : \A i \in Range(rsets[r].n_elts) :
         IsOwned(rsets[r], i)
           => ps[r].x[rsets[r].g_id[i] - rsets[r].l_range[1]] = ps_pre[r].x[i]
    /\ \A r \in Ranks :
         ps[r].calls = <<"gather_x", "sum_b", "gather_b", "counter">>

\* C27 witness: two ranks have returned; rank 1 owns an entity which it
\* holds after a ghost and of which rank 0 holds a copy with another value
C27_Witness ==
  /\ n_ranks = 2 /\ AllReturned
  /\ \E g \in SharedEntities :
       /\ OwnerOf(g) = 1
       /\ ~IsOwned(rsets[1], 0)
       /\ \E h1 \in Holders(g) : \E h2 \in Holders(g) :
            /\ h1[1] = 0 /\ h2[1] = 1
            /\ ps_pre[0].x[h1[2]] # ps_pre[1].x[h2[2]]
            /\ ps[1].x[g - rsets[1].l_range[1]] = ps_pre[1].x[h2[2]]
            /\ ps[1].x # ps_pre[1].x

\* C29: cs_equation_balance_sync reaches the sum on the interfaces only with
\* 2 ranks or more and a balance at the primal vertices; with one rank (and
\* even with no balance structure) or with a balance at the cells it returns
\* with the 7 arrays as they were; with 2 ranks or more and no balance
\* structure it does not return, the run is stopped by a fatal error
C29_SyncFrame ==
  /\ \A r \in Ranks :
       /\ bal[r].pc = "sum"
            => /\ n_ranks >= 2
               /\ bal[r].b # NoBalance
               /\ cs_flag_test(bal[r].b.location, cs_flag_primal_vtx)
       /\ (bal[r].pc = "synced"
           /\ (n_ranks < 2
               \/ ~cs_flag_test(bal[r].b.location, cs_flag_primal_vtx)))
            => bal[r].b.balance = bal_pre[r]
       /\ (n_ranks >= 2 /\ bal[r].b = NoBalance) => bal[r].pc = "created"
  /\ (bal # << >> /\ status = "fatal")
       => (n_ranks >= 2 /\ \E r \in Ranks : bal[r].b = NoBalance)

\* C29 witness: two ranks have returned from cs_equation_balance_sync with a
\* balance at the cells in which contributions had been accumulated
C29_Witness ==
  /\ n_ranks = 2 /\ AllSynced
  /\ \A r \in Ranks : cs_flag_test(bal[r].b.location, cs_flag_primal_cell)
  /\ NAccum = 2
  /\ \A r \in Ranks : \E idx \in DOMAIN bal[r].b.balance :
       bal[r].b.balance[idx] # 0

\* C30 (as claimed): once cs_equation_free_structures has returned, every
\* block cs_equation_allocate_structures had allocated is freed (assemblers
\* and structures, work buffer, and by thread the buffer record with
\* row_gids, col_gids, values and dof_gids), and
\* cs_equation_get_matrix_structure returns NULL for every id
C30_AllReleased ==
  status = "end" =>
    /\ heap = {}
    /\ \A flag \in ConnectCases \cup {"out_of_range"} :
         cs_equation_get_matrix_structure(flag) = "NULL"

====
